---- MODULE Spec2Model ----
(***************************************************************************)
(* Limit order matching engine (rust-order-book): the three order book     *)
(* backends (HashMap, PriorityQueue, ArrayQueue) behind OrderBookTrait.    *)
(* The three books are driven in lockstep by the same calls so that their  *)
(* behaviours can be compared call by call.                                *)
(***************************************************************************)
EXTENDS Integers, Sequences, FiniteSets, TLC

\* ------------------------------------------------------------------ bounds

\* Identifiers available to callers; every order of a run takes a fresh one,
\* so a run submits at most MaxId orders.
MaxId == 3

\* Ring capacity of the ArrayQueue backend (DEFAULT_QUEUE_SIZE, 4096 in
\* array_queue_order_book.rs:9), scaled down so that a ring fills up.
DEFAULT_QUEUE_SIZE == 2

\* Attempts of one ArrayQueue match_orders call (max_matches, 100 in
\* array_queue_order_book.rs:72), scaled down and, as in the program, kept
\* below the ring capacity: a ring can hold more crossing orders than one
\* call may consume.
max_matches == 1

\* Orders a run of the single-symbol specification submits.
MaxAqId == 5

\* Symbols the books are constructed with, and the symbols callers may name.
BookSymbols == {0, 1}
AllSymbols == {0, 1, 2}

\* Fixed-point prices callers may use.
Prices == {1, 2}

Ids == 1..MaxId

\* The quantity a caller gives the order with identifier id: quantities differ
\* between orders (1 or 2) without multiplying the inputs.
QuantityOf(id) == 1 + (id % 2)

\* ------------------------------------------------------------- data model

\* Option<T>: None is the empty sequence, Some(x) the one-element sequence.
None == <<>>
Some(x) == <<x>>
IsSome(opt) == opt /= <<>>
Unwrap(opt) == opt[1]

\* types/order.rs: struct Order
Order(id, symbol, quantity, price, order_type) ==
    [id |-> id, symbol |-> symbol, quantity |-> quantity, price |-> price,
     order_type |-> order_type]

Orders ==
    {Order(i, s, QuantityOf(i), p, t) : i \in Ids, s \in AllSymbols,
                                        p \in Prices, t \in {"Buy", "Sell"}}

MaxOf(S) == CHOOSE x \in S : \A y \in S : y <= x
MinOf(S) == CHOOSE x \in S : \A y \in S : x <= y

\* BTreeMap / FxHashMap as a function on its key set.
MapRemove(m, k) == [x \in (DOMAIN m) \ {k} |-> m[x]]
MapPut(m, k, v) == [x \in (DOMAIN m) \cup {k} |-> IF x = k THEN v ELSE m[x]]
EmptyMap == [x \in {} |-> 0]

\* -------------------------------------------------------- HashMap backend

\* total_quantity is a u64 and `+=`, `-=` on it wrap in a build without
\* overflow checks: the modulus 2^64, scaled down with the quantities.
U64_MODULUS == 4

PriceLevel_new == [orders |-> <<>>, count |-> 0, total_quantity |-> 0]

PriceLevel_is_empty(level) == level.count = 0

PriceLevel_push_back(level, order) ==
    [orders |-> Append(level.orders, order),
     count |-> level.count + 1,
     total_quantity |-> (level.total_quantity + order.quantity) % U64_MODULUS]

\* Mutant: the level hands out its newest order (pop_back).
M_PriceLevel_pop_front_newest(level) ==
    IF level.orders /= <<>>
    THEN [level |-> [orders |-> SubSeq(level.orders, 1, Len(level.orders) - 1),
                     count |-> level.count - 1,
                     total_quantity |->
                         (level.total_quantity
                              - level.orders[Len(level.orders)].quantity) % U64_MODULUS],
          order |-> Some(level.orders[Len(level.orders)])]
    ELSE [level |-> level, order |-> None]

\* Mutant: the popped order is handed out while the cached count stays.
M_PriceLevel_pop_front_nocount(level) ==
    IF level.orders /= <<>>
    THEN [level |-> [orders |-> Tail(level.orders),
                     count |-> level.count,
                     total_quantity |->
                         (level.total_quantity - Head(level.orders).quantity)
                             % U64_MODULUS],
          order |-> Some(Head(level.orders))]
    ELSE [level |-> level, order |-> None]

\* Returns the level after the pop and the popped order (None on an empty FIFO).
PriceLevel_pop_front(level) ==
    IF level.orders /= <<>>
    THEN [level |-> [orders |-> Tail(level.orders),
                     count |-> level.count - 1,
                     total_quantity |->
                         (level.total_quantity - Head(level.orders).quantity)
                             % U64_MODULUS],
          order |-> Some(Head(level.orders))]
    ELSE [level |-> level, order |-> None]

HashMapMatcher_new == [bid_levels |-> EmptyMap, ask_levels |-> EmptyMap]

\* levels.entry(price).or_insert_with(PriceLevel::new).push_back(order)
LevelsPush(levels, order) ==
    LET level == IF order.price \in DOMAIN levels THEN levels[order.price]
                 ELSE PriceLevel_new
    IN MapPut(levels, order.price, PriceLevel_push_back(level, order))

\* Mutant: the side is not looked at; every order goes to the bid levels.
M_HashMapMatcher_add_order_oneside(m, order) ==
    [m EXCEPT !.bid_levels = LevelsPush(m.bid_levels, order)]

HashMapMatcher_add_order(m, order) ==
    IF order.order_type = "Buy"
    THEN [m EXCEPT !.bid_levels = LevelsPush(m.bid_levels, order)]
    ELSE [m EXCEPT !.ask_levels = LevelsPush(m.ask_levels, order)]

\* Mutant: the order is pushed only onto a level that is already there (the
\* or_insert_with is missing).
M_HashMapMatcher_add_order_unchecked_noinsert(m, order) ==
    IF order.order_type = "Buy"
    THEN IF order.price \in DOMAIN m.bid_levels
         THEN [m EXCEPT !.bid_levels = LevelsPush(m.bid_levels, order)]
         ELSE m
    ELSE IF order.price \in DOMAIN m.ask_levels
         THEN [m EXCEPT !.ask_levels = LevelsPush(m.ask_levels, order)]
         ELSE m

HashMapMatcher_add_order_unchecked(m, order) ==
    IF order.order_type = "Buy"
    THEN [m EXCEPT !.bid_levels = LevelsPush(m.bid_levels, order)]
    ELSE [m EXCEPT !.ask_levels = LevelsPush(m.ask_levels, order)]

\* Mutant: the bid levels are walked from the lowest price (the .rev() is missing).
M_HashMapMatcher_get_best_bid_lowest(m) ==
    LET ps == {p \in DOMAIN m.bid_levels : ~PriceLevel_is_empty(m.bid_levels[p])}
    IN IF ps = {} THEN None ELSE Some(MinOf(ps))

HashMapMatcher_get_best_bid(m) ==
    LET ps == {p \in DOMAIN m.bid_levels : ~PriceLevel_is_empty(m.bid_levels[p])}
    IN IF ps = {} THEN None ELSE Some(MaxOf(ps))

HashMapMatcher_get_best_ask(m) ==
    LET ps == {p \in DOMAIN m.ask_levels : ~PriceLevel_is_empty(m.ask_levels[p])}
    IN IF ps = {} THEN None ELSE Some(MinOf(ps))

HashMapMatcher_get_best_prices(m) ==
    <<HashMapMatcher_get_best_bid(m), HashMapMatcher_get_best_ask(m)>>

\* Mutant: can_match asks for a best bid strictly above the best ask.
M_HashMapMatcher_can_match_strict(m) ==
    LET bid == HashMapMatcher_get_best_bid(m)
        ask == HashMapMatcher_get_best_ask(m)
    IN IF IsSome(bid) /\ IsSome(ask) THEN Unwrap(bid) > Unwrap(ask) ELSE FALSE

HashMapMatcher_can_match(m) ==
    LET bid == HashMapMatcher_get_best_bid(m)
        ask == HashMapMatcher_get_best_ask(m)
    IN IF IsSome(bid) /\ IsSome(ask) THEN Unwrap(bid) >= Unwrap(ask) ELSE FALSE

\* levels.get_mut(&price).and_then(|level| level.pop_front())
LevelsPop(levels, price) ==
    IF price \in DOMAIN levels
    THEN LET r == PriceLevel_pop_front(levels[price])
         IN [levels |-> [levels EXCEPT ![price] = r.level], order |-> r.order]
    ELSE [levels |-> levels, order |-> None]

\* Mutant: an exhausted level is left in the map.
M_LevelsPrune_keep(levels, price) == levels

\* if levels.get(&price).is_none_or(|level| level.is_empty()) { levels.remove(&price) }
LevelsPrune(levels, price) ==
    IF price \notin DOMAIN levels \/ PriceLevel_is_empty(levels[price])
    THEN MapRemove(levels, price)
    ELSE levels

\* Mutant: the loop goes on only while the best bid is strictly above the best ask.
M_HashMapMatcher_match_cond_strict(m) ==
    LET bid == HashMapMatcher_get_best_bid(m)
        ask == HashMapMatcher_get_best_ask(m)
    IN IF IsSome(bid) /\ IsSome(ask) THEN Unwrap(bid) > Unwrap(ask) ELSE FALSE

\* Mutant: the loop goes on while both sides hold an order, crossing or not.
M_HashMapMatcher_match_cond_any(m) ==
    IsSome(HashMapMatcher_get_best_bid(m)) /\ IsSome(HashMapMatcher_get_best_ask(m))

\* let can_match = match (self.get_best_bid(), self.get_best_ask()) { ... }
HashMapMatcher_match_cond(m) ==
    LET bid_price == HashMapMatcher_get_best_bid(m)
        ask_price == HashMapMatcher_get_best_ask(m)
    IN IF IsSome(bid_price) /\ IsSome(ask_price)
       THEN Unwrap(bid_price) >= Unwrap(ask_price)
       ELSE FALSE

\* The loop of match_orders.  Returns the matcher after the loop, the pairs
\* <<bid, ask>> consumed in order, and the orders popped on one side only.
RECURSIVE HashMapMatcher_match_loop(_, _, _)
HashMapMatcher_match_loop(m, pairs, lost) ==
    IF ~HashMapMatcher_match_cond(m)
    THEN [m |-> m, pairs |-> pairs, lost |-> lost]
    ELSE LET bid_price == Unwrap(HashMapMatcher_get_best_bid(m))
             ask_price == Unwrap(HashMapMatcher_get_best_ask(m))
             b == LevelsPop(m.bid_levels, bid_price)
             a == LevelsPop(m.ask_levels, ask_price)
         IN IF IsSome(b.order) /\ IsSome(a.order)
            THEN HashMapMatcher_match_loop(
                     [bid_levels |-> LevelsPrune(b.levels, bid_price),
                      ask_levels |-> LevelsPrune(a.levels, ask_price)],
                     Append(pairs, <<Unwrap(b.order), Unwrap(a.order)>>),
                     lost)
            ELSE [m |-> [bid_levels |-> b.levels, ask_levels |-> a.levels],
                  pairs |-> pairs,
                  lost |-> lost \o b.order \o a.order]

HashMapMatcher_match_orders(m) == HashMapMatcher_match_loop(m, <<>>, <<>>)

\* FxHashMap<SymbolId, HashMapMatcher> plus the symbol set.
HashMapOrderBook_new(symbols) ==
    [symbols |-> symbols, matchers |-> [s \in symbols |-> HashMapMatcher_new]]

\* Mutant: an unknown symbol gets a matcher on demand (entry().or_insert_with()).
M_HashMapOrderBook_add_order_insert(book, order) ==
    IF order.symbol \in DOMAIN book.matchers
    THEN [book |-> [book EXCEPT !.matchers[order.symbol] =
                        HashMapMatcher_add_order(@, order)],
          ret |-> "Ok(true)"]
    ELSE [book |-> [book EXCEPT !.matchers =
                        MapPut(@, order.symbol,
                               HashMapMatcher_add_order(HashMapMatcher_new, order))],
          ret |-> "Err(InvalidSymbol)"]

HashMapOrderBook_add_order(book, order) ==
    IF order.symbol \in DOMAIN book.matchers
    THEN [book |-> [book EXCEPT !.matchers[order.symbol] =
                        HashMapMatcher_add_order(@, order)],
          ret |-> "Ok(true)"]
    ELSE [book |-> book, ret |-> "Err(InvalidSymbol)"]

\* Mutant: an order of an unknown symbol goes to the matcher of the first symbol.
M_HashMapOrderBook_add_order_fast_fallback(book, order) ==
    IF order.symbol \in DOMAIN book.matchers
    THEN [book |-> [book EXCEPT !.matchers[order.symbol] =
                        HashMapMatcher_add_order(@, order)],
          ret |-> TRUE]
    ELSE [book |-> [book EXCEPT !.matchers[MinOf(DOMAIN book.matchers)] =
                        HashMapMatcher_add_order(@, order)],
          ret |-> TRUE]

HashMapOrderBook_add_order_fast(book, order) ==
    IF order.symbol \in DOMAIN book.matchers
    THEN [book |-> [book EXCEPT !.matchers[order.symbol] =
                        HashMapMatcher_add_order(@, order)],
          ret |-> TRUE]
    ELSE [book |-> book, ret |-> FALSE]

\* Safety contract: the caller guarantees order.symbol is a key of matchers.
HashMapOrderBook_add_order_unchecked(book, order) ==
    [book EXCEPT !.matchers[order.symbol] =
         HashMapMatcher_add_order_unchecked(@, order)]

\* for matcher in self.matchers.values_mut() { matcher.match_orders() }
\* The matchers are disjoint, so the iteration order does not show.
HashMapOrderBook_match_orders(book) ==
    LET r == [s \in DOMAIN book.matchers |-> HashMapMatcher_match_orders(book.matchers[s])]
    IN [book |-> [book EXCEPT !.matchers = [s \in DOMAIN book.matchers |-> r[s].m]],
        pairs |-> [s \in DOMAIN book.matchers |-> r[s].pairs],
        lost |-> [s \in DOMAIN book.matchers |-> r[s].lost]]

HashMapOrderBook_get_best_prices(book, symbol) ==
    IF symbol \in DOMAIN book.matchers
    THEN Some(HashMapMatcher_get_best_prices(book.matchers[symbol]))
    ELSE None

HashMapOrderBook_can_match(book, symbol) ==
    IF symbol \in DOMAIN book.matchers
    THEN HashMapMatcher_can_match(book.matchers[symbol])
    ELSE FALSE

HashMapOrderBook_is_valid_symbol(book, symbol) == symbol \in book.symbols

HashMapOrderBook_get_symbols(book) == book.symbols

\* -------------------------------------------------- PriorityQueue backend

\* u64::cmp
U64_cmp(x, y) == IF x < y THEN "Less" ELSE IF x = y THEN "Equal" ELSE "Greater"

\* Mutant: equal prices are ordered by self.id.cmp(other.id), the higher
\* identifier first.
M_BidOrder_cmp_tie(self, other) ==
    IF U64_cmp(self.price, other.price) = "Equal"
    THEN U64_cmp(self.id, other.id)
    ELSE U64_cmp(self.price, other.price)

\* impl Ord for BidOrder: self.price.cmp(other.price), ties by other.id.cmp(self.id)
BidOrder_cmp(self, other) ==
    IF U64_cmp(self.price, other.price) = "Equal"
    THEN U64_cmp(other.id, self.id)
    ELSE U64_cmp(self.price, other.price)

\* Mutant: equal-priced asks are ordered by self.id.cmp(other.id), the higher
\* identifier first.
M_AskOrder_cmp_tie(self, other) ==
    IF U64_cmp(other.price, self.price) = "Equal"
    THEN U64_cmp(self.id, other.id)
    ELSE U64_cmp(other.price, self.price)

\* Mutant: asks are ordered like bids, the highest price first.
M_AskOrder_cmp_price(self, other) ==
    IF U64_cmp(self.price, other.price) = "Equal"
    THEN U64_cmp(other.id, self.id)
    ELSE U64_cmp(self.price, other.price)

\* impl Ord for AskOrder: other.price.cmp(self.price), ties by other.id.cmp(self.id)
AskOrder_cmp(self, other) ==
    IF U64_cmp(other.price, self.price) = "Equal"
    THEN U64_cmp(other.id, self.id)
    ELSE U64_cmp(other.price, self.price)

\* BinaryHeap<T>: the elements held; peek and pop give a greatest element
\* under T's Ord.  Identifiers are unique within a run, so no two elements of
\* a heap compare Equal and the greatest element is unique.
BidHeap_peek(heap) ==
    IF heap = {} THEN None
    ELSE Some(CHOOSE o \in heap : \A x \in heap : BidOrder_cmp(o, x) /= "Less")

AskHeap_peek(heap) ==
    IF heap = {} THEN None
    ELSE Some(CHOOSE o \in heap : \A x \in heap : AskOrder_cmp(o, x) /= "Less")

Heap_push(heap, order) == heap \cup {order}

\* pop: the heap without its greatest element, and that element.
BidHeap_pop(heap) ==
    LET top == BidHeap_peek(heap)
    IN [heap |-> IF IsSome(top) THEN heap \ {Unwrap(top)} ELSE heap, order |-> top]

AskHeap_pop(heap) ==
    LET top == AskHeap_peek(heap)
    IN [heap |-> IF IsSome(top) THEN heap \ {Unwrap(top)} ELSE heap, order |-> top]

\* heap.peek().map(|order| order.0.price)
PeekPrice(top) == IF IsSome(top) THEN Some(Unwrap(top).price) ELSE None

PriorityQueueMatcher_new ==
    [bids |-> {}, asks |-> {}, best_bid |-> None, best_ask |-> None]

\* Mutant: the cached best price is overwritten by the price of the new order.
M_PriorityQueueMatcher_add_order_overwrite(m, order) ==
    IF order.order_type = "Buy"
    THEN [m EXCEPT !.bids = Heap_push(@, order), !.best_bid = Some(order.price)]
    ELSE [m EXCEPT !.asks = Heap_push(@, order), !.best_ask = Some(order.price)]

PriorityQueueMatcher_add_order(m, order) ==
    IF order.order_type = "Buy"
    THEN [m EXCEPT !.bids = Heap_push(@, order),
                   !.best_bid = Some(IF IsSome(@) /\ Unwrap(@) >= order.price
                                     THEN Unwrap(@) ELSE order.price)]
    ELSE [m EXCEPT !.asks = Heap_push(@, order),
                   !.best_ask = Some(IF IsSome(@) /\ Unwrap(@) <= order.price
                                     THEN Unwrap(@) ELSE order.price)]

PriorityQueueMatcher_can_match(m) ==
    IF IsSome(m.best_bid) /\ IsSome(m.best_ask)
    THEN Unwrap(m.best_bid) >= Unwrap(m.best_ask)
    ELSE FALSE

RECURSIVE PriorityQueueMatcher_match_loop(_, _, _)
\* Mutant: after a pair is popped the cached best prices are left as they were.
M_PriorityQueueMatcher_match_loop_stale(m, pairs, lost) ==
    IF ~PriorityQueueMatcher_can_match(m)
    THEN [m |-> m, pairs |-> pairs, lost |-> lost]
    ELSE LET bid == BidHeap_pop(m.bids)
             ask == AskHeap_pop(m.asks)
         IN IF IsSome(bid.order) /\ IsSome(ask.order)
            THEN PriorityQueueMatcher_match_loop(
                     [m EXCEPT !.bids = bid.heap, !.asks = ask.heap],
                     Append(pairs, <<Unwrap(bid.order), Unwrap(ask.order)>>),
                     lost)
            ELSE [m |-> [m EXCEPT !.bids = bid.heap, !.asks = ask.heap],
                  pairs |-> pairs,
                  lost |-> lost \o bid.order \o ask.order]

\* Mutant: a partial fill; the larger bid goes back on the heap with the
\* quantity the ask did not cover.
M_PriorityQueueMatcher_match_loop_partial(m, pairs, lost) ==
    IF ~PriorityQueueMatcher_can_match(m)
    THEN [m |-> m, pairs |-> pairs, lost |-> lost]
    ELSE LET bid == BidHeap_pop(m.bids)
             ask == AskHeap_pop(m.asks)
         IN IF IsSome(bid.order) /\ IsSome(ask.order)
            THEN LET b == Unwrap(bid.order)
                     a == Unwrap(ask.order)
                     bids == IF b.quantity > a.quantity
                             THEN Heap_push(bid.heap,
                                            [b EXCEPT !.quantity = @ - a.quantity])
                             ELSE bid.heap
                 IN PriorityQueueMatcher_match_loop(
                        [bids |-> bids, asks |-> ask.heap,
                         best_bid |-> PeekPrice(BidHeap_peek(bids)),
                         best_ask |-> PeekPrice(AskHeap_peek(ask.heap))],
                        Append(pairs, <<b, a>>),
                        lost)
            ELSE [m |-> [m EXCEPT !.bids = bid.heap, !.asks = ask.heap],
                  pairs |-> pairs,
                  lost |-> lost \o bid.order \o ask.order]

PriorityQueueMatcher_match_loop(m, pairs, lost) ==
    IF ~PriorityQueueMatcher_can_match(m)
    THEN [m |-> m, pairs |-> pairs, lost |-> lost]
    ELSE LET bid == BidHeap_pop(m.bids)
             ask == AskHeap_pop(m.asks)
         IN IF IsSome(bid.order) /\ IsSome(ask.order)
            THEN PriorityQueueMatcher_match_loop(
                     [bids |-> bid.heap, asks |-> ask.heap,
                      best_bid |-> PeekPrice(BidHeap_peek(bid.heap)),
                      best_ask |-> PeekPrice(AskHeap_peek(ask.heap))],
                     Append(pairs, <<Unwrap(bid.order), Unwrap(ask.order)>>),
                     lost)
            ELSE [m |-> [m EXCEPT !.bids = bid.heap, !.asks = ask.heap],
                  pairs |-> pairs,
                  lost |-> lost \o bid.order \o ask.order]

PriorityQueueMatcher_match_orders(m) == PriorityQueueMatcher_match_loop(m, <<>>, <<>>)

PriorityQueueMatcher_get_best_prices(m) ==
    <<PeekPrice(BidHeap_peek(m.bids)), PeekPrice(AskHeap_peek(m.asks))>>

PriorityQueueOrderBook_new(symbols) ==
    [symbols |-> symbols, matchers |-> [s \in symbols |-> PriorityQueueMatcher_new]]

PriorityQueueOrderBook_add_order(book, order) ==
    IF order.symbol \in DOMAIN book.matchers
    THEN [book |-> [book EXCEPT !.matchers[order.symbol] =
                        PriorityQueueMatcher_add_order(@, order)],
          ret |-> "Ok(true)"]
    ELSE [book |-> book, ret |-> "Err(InvalidSymbol)"]

\* Mutant: the fast path creates a matcher for a symbol it does not know.
M_PriorityQueueOrderBook_add_order_fast_insert(book, order) ==
    IF order.symbol \in DOMAIN book.matchers
    THEN [book |-> [book EXCEPT !.matchers[order.symbol] =
                        PriorityQueueMatcher_add_order(@, order)],
          ret |-> TRUE]
    ELSE [book |-> [book EXCEPT !.matchers =
                        MapPut(@, order.symbol,
                               PriorityQueueMatcher_add_order(PriorityQueueMatcher_new,
                                                              order))],
          ret |-> FALSE]

\* Mutant: the fast path reports success whatever happened.
M_PriorityQueueOrderBook_add_order_fast_true(book, order) ==
    IF order.symbol \in DOMAIN book.matchers
    THEN [book |-> [book EXCEPT !.matchers[order.symbol] =
                        PriorityQueueMatcher_add_order(@, order)],
          ret |-> TRUE]
    ELSE [book |-> book, ret |-> TRUE]

PriorityQueueOrderBook_add_order_fast(book, order) ==
    IF order.symbol \in DOMAIN book.matchers
    THEN [book |-> [book EXCEPT !.matchers[order.symbol] =
                        PriorityQueueMatcher_add_order(@, order)],
          ret |-> TRUE]
    ELSE [book |-> book, ret |-> FALSE]

\* Safety contract: the caller guarantees order.symbol is a key of matchers.
PriorityQueueOrderBook_add_order_unchecked(book, order) ==
    [book EXCEPT !.matchers[order.symbol] = PriorityQueueMatcher_add_order(@, order)]

PriorityQueueOrderBook_match_orders(book) ==
    LET r == [s \in DOMAIN book.matchers |->
                  PriorityQueueMatcher_match_orders(book.matchers[s])]
    IN [book |-> [book EXCEPT !.matchers = [s \in DOMAIN book.matchers |-> r[s].m]],
        pairs |-> [s \in DOMAIN book.matchers |-> r[s].pairs],
        lost |-> [s \in DOMAIN book.matchers |-> r[s].lost]]

PriorityQueueOrderBook_get_best_prices(book, symbol) ==
    IF symbol \in DOMAIN book.matchers
    THEN Some(PriorityQueueMatcher_get_best_prices(book.matchers[symbol]))
    ELSE None

PriorityQueueOrderBook_can_match(book, symbol) ==
    IF symbol \in DOMAIN book.matchers
    THEN PriorityQueueMatcher_can_match(book.matchers[symbol])
    ELSE FALSE

PriorityQueueOrderBook_is_valid_symbol(book, symbol) == symbol \in DOMAIN book.matchers

PriorityQueueOrderBook_get_symbols(book) == book.symbols

\* ----------------------------------------------------- ArrayQueue backend

\* crossbeam ArrayQueue<Order>: a bounded FIFO ring.
ArrayQueue_new(cap) == [items |-> <<>>, capacity |-> cap]

ArrayQueue_is_empty(q) == q.items = <<>>

ArrayQueue_is_full(q) == Len(q.items) >= q.capacity

\* push: refused (Err) when the ring is full, else appended at the tail.
ArrayQueue_push(q, order) ==
    IF ArrayQueue_is_full(q)
    THEN [q |-> q, ok |-> FALSE]
    ELSE [q |-> [q EXCEPT !.items = Append(@, order)], ok |-> TRUE]

\* force_push: on a full ring the oldest element is replaced and returned.
ArrayQueue_force_push(q, order) ==
    IF ArrayQueue_is_full(q)
    THEN [q |-> [q EXCEPT !.items = Append(Tail(@), order)],
          old |-> Some(Head(q.items))]
    ELSE [q |-> [q EXCEPT !.items = Append(@, order)], old |-> None]

\* pop: the front element, None on an empty ring.
ArrayQueue_pop(q) ==
    IF ArrayQueue_is_empty(q)
    THEN [q |-> q, order |-> None]
    ELSE [q |-> [q EXCEPT !.items = Tail(@)], order |-> Some(Head(q.items))]

ArrayQueueMatcher_new ==
    [bids |-> ArrayQueue_new(DEFAULT_QUEUE_SIZE),
     asks |-> ArrayQueue_new(DEFAULT_QUEUE_SIZE),
     best_bid |-> None, best_ask |-> None]

\* Mutant: the cached best bid is overwritten by the latest pushed price.
M_RunningMax_latest(best, price) == Some(price)

\* best.map_or(price, |current| current.max(price))
RunningMax(best, price) ==
    Some(IF IsSome(best) /\ Unwrap(best) >= price THEN Unwrap(best) ELSE price)

\* best.map_or(price, |current| current.min(price))
RunningMin(best, price) ==
    Some(IF IsSome(best) /\ Unwrap(best) <= price THEN Unwrap(best) ELSE price)

\* Mutant: the checked path pushes with force_push, as the unchecked path does.
M_ArrayQueueMatcher_add_order_force(m, order) ==
    IF order.order_type = "Buy"
    THEN [m |-> [m EXCEPT !.bids = ArrayQueue_force_push(m.bids, order).q,
                          !.best_bid = RunningMax(m.best_bid, order.price)],
          ret |-> TRUE]
    ELSE [m |-> [m EXCEPT !.asks = ArrayQueue_force_push(m.asks, order).q,
                          !.best_ask = RunningMin(m.best_ask, order.price)],
          ret |-> TRUE]

ArrayQueueMatcher_add_order(m, order) ==
    IF order.order_type = "Buy"
    THEN LET r == ArrayQueue_push(m.bids, order)
         IN IF r.ok
            THEN [m |-> [m EXCEPT !.bids = r.q,
                                  !.best_bid = RunningMax(m.best_bid, order.price)],
                  ret |-> TRUE]
            ELSE [m |-> m, ret |-> FALSE]
    ELSE LET r == ArrayQueue_push(m.asks, order)
         IN IF r.ok
            THEN [m |-> [m EXCEPT !.asks = r.q,
                                  !.best_ask = RunningMin(m.best_ask, order.price)],
                  ret |-> TRUE]
            ELSE [m |-> m, ret |-> FALSE]

\* Mutant: the order is appended and nothing is displaced.
M_ArrayQueueMatcher_add_order_unchecked_grow(m, order) ==
    IF order.order_type = "Buy"
    THEN [m |-> [m EXCEPT !.bids.items = Append(@, order),
                          !.best_bid = RunningMax(m.best_bid, order.price)],
          old |-> None]
    ELSE [m |-> [m EXCEPT !.asks.items = Append(@, order),
                          !.best_ask = RunningMin(m.best_ask, order.price)],
          old |-> None]

\* Returns the matcher and the order force_push displaced (None if none).
ArrayQueueMatcher_add_order_unchecked(m, order) ==
    IF order.order_type = "Buy"
    THEN LET r == ArrayQueue_force_push(m.bids, order)
         IN [m |-> [m EXCEPT !.bids = r.q,
                             !.best_bid = RunningMax(m.best_bid, order.price)],
             old |-> r.old]
    ELSE LET r == ArrayQueue_force_push(m.asks, order)
         IN [m |-> [m EXCEPT !.asks = r.q,
                             !.best_ask = RunningMin(m.best_ask, order.price)],
             old |-> r.old]

ArrayQueueMatcher_can_match_optimistic(m) ==
    IF IsSome(m.best_bid) /\ IsSome(m.best_ask)
    THEN /\ Unwrap(m.best_bid) >= Unwrap(m.best_ask)
         /\ ~ArrayQueue_is_empty(m.bids)
         /\ ~ArrayQueue_is_empty(m.asks)
    ELSE FALSE

\* Mutant: only the cached best ask is cleared.
M_ArrayQueueMatcher_recalculate_ask_only(m) == [m EXCEPT !.best_ask = None]

\* Mutant: the cached extrema are kept after a match.
M_ArrayQueueMatcher_recalculate_keep(m) == m

ArrayQueueMatcher_recalculate_best_prices(m) ==
    [m EXCEPT !.best_bid = None, !.best_ask = None]

\* The for loop of match_orders: `left` attempts remain.  Returns the matcher
\* after the loop, the pairs counted as matches, and the orders popped on one
\* side only.
RECURSIVE ArrayQueueMatcher_match_loop(_, _, _, _)

\* Mutant: of a front pair that does not cross only the bid is pushed back.
M_ArrayQueueMatcher_match_loop_dropask(m, left, pairs, lost) ==
    IF left = 0 \/ ~ArrayQueueMatcher_can_match_optimistic(m)
    THEN [m |-> m, pairs |-> pairs, lost |-> lost]
    ELSE LET b == ArrayQueue_pop(m.bids)
             a == ArrayQueue_pop(m.asks)
         IN IF IsSome(b.order) /\ IsSome(a.order)
            THEN IF Unwrap(b.order).price >= Unwrap(a.order).price
                 THEN ArrayQueueMatcher_match_loop(
                          [m EXCEPT !.bids = b.q, !.asks = a.q],
                          left - 1,
                          Append(pairs, <<Unwrap(b.order), Unwrap(a.order)>>),
                          lost)
                 ELSE [m |-> [m EXCEPT
                                 !.bids = ArrayQueue_push(b.q, Unwrap(b.order)).q,
                                 !.asks = a.q],
                       pairs |-> pairs, lost |-> lost]
            ELSE [m |-> [m EXCEPT !.bids = b.q, !.asks = a.q],
                  pairs |-> pairs,
                  lost |-> lost \o b.order \o a.order]

\* Mutant: the popped ask is compared with the cached best bid instead of the
\* popped bid.
M_ArrayQueueMatcher_match_loop_cached(m, left, pairs, lost) ==
    IF left = 0 \/ ~ArrayQueueMatcher_can_match_optimistic(m)
    THEN [m |-> m, pairs |-> pairs, lost |-> lost]
    ELSE LET b == ArrayQueue_pop(m.bids)
             a == ArrayQueue_pop(m.asks)
         IN IF Unwrap(m.best_bid) >= Unwrap(a.order).price
            THEN ArrayQueueMatcher_match_loop(
                     [m EXCEPT !.bids = b.q, !.asks = a.q],
                     left - 1,
                     Append(pairs, <<Unwrap(b.order), Unwrap(a.order)>>),
                     lost)
            ELSE [m |-> [m EXCEPT
                            !.bids = ArrayQueue_push(b.q, Unwrap(b.order)).q,
                            !.asks = ArrayQueue_push(a.q, Unwrap(a.order)).q],
                  pairs |-> pairs, lost |-> lost]

ArrayQueueMatcher_match_loop(m, left, pairs, lost) ==
    IF left = 0 \/ ~ArrayQueueMatcher_can_match_optimistic(m)
    THEN [m |-> m, pairs |-> pairs, lost |-> lost]
    ELSE LET b == ArrayQueue_pop(m.bids)
             a == ArrayQueue_pop(m.asks)
         IN IF IsSome(b.order) /\ IsSome(a.order)
            THEN IF Unwrap(b.order).price >= Unwrap(a.order).price
                 THEN ArrayQueueMatcher_match_loop(
                          [m EXCEPT !.bids = b.q, !.asks = a.q],
                          left - 1,
                          Append(pairs, <<Unwrap(b.order), Unwrap(a.order)>>),
                          lost)
                 ELSE [m |-> [m EXCEPT
                                 !.bids = ArrayQueue_push(b.q, Unwrap(b.order)).q,
                                 !.asks = ArrayQueue_push(a.q, Unwrap(a.order)).q],
                       pairs |-> pairs, lost |-> lost]
            ELSE [m |-> [m EXCEPT !.bids = b.q, !.asks = a.q],
                  pairs |-> pairs,
                  lost |-> lost \o b.order \o a.order]

\* Mutant: after a match the extrema are re-derived from the ring contents.
M_ArrayQueueMatcher_match_orders_rescan(m) ==
    LET r == ArrayQueueMatcher_match_loop(m, max_matches, <<>>, <<>>)
        bidPrices == {r.m.bids.items[i].price : i \in 1..Len(r.m.bids.items)}
        askPrices == {r.m.asks.items[i].price : i \in 1..Len(r.m.asks.items)}
    IN IF Len(r.pairs) > 0
       THEN [r EXCEPT !.m.best_bid = IF bidPrices = {} THEN None
                                     ELSE Some(MaxOf(bidPrices)),
                      !.m.best_ask = IF askPrices = {} THEN None
                                     ELSE Some(MinOf(askPrices))]
       ELSE r

\* Mutant: the loop runs until the cached extrema or the rings stop it, with no
\* cap on the attempts.
M_ArrayQueueMatcher_match_orders_uncapped(m) ==
    LET r == ArrayQueueMatcher_match_loop(
                 m, Len(m.bids.items) + Len(m.asks.items), <<>>, <<>>)
    IN IF Len(r.pairs) > 0
       THEN [r EXCEPT !.m = ArrayQueueMatcher_recalculate_best_prices(r.m)]
       ELSE r

ArrayQueueMatcher_match_orders(m) ==
    LET r == ArrayQueueMatcher_match_loop(m, max_matches, <<>>, <<>>)
    IN IF Len(r.pairs) > 0
       THEN [r EXCEPT !.m = ArrayQueueMatcher_recalculate_best_prices(r.m)]
       ELSE r

ArrayQueueMatcher_get_best_prices(m) == <<m.best_bid, m.best_ask>>

ArrayQueueMatcher_can_match(m) ==
    IF ArrayQueue_is_empty(m.bids) \/ ArrayQueue_is_empty(m.asks)
    THEN FALSE
    ELSE IF IsSome(m.best_bid) /\ IsSome(m.best_ask)
         THEN Unwrap(m.best_bid) >= Unwrap(m.best_ask)
         ELSE FALSE

ArrayQueueOrderBook_new(symbols) ==
    [symbols |-> symbols, matchers |-> [s \in symbols |-> ArrayQueueMatcher_new]]

ArrayQueueOrderBook_add_order(book, order) ==
    IF order.symbol \in DOMAIN book.matchers
    THEN LET r == ArrayQueueMatcher_add_order(book.matchers[order.symbol], order)
         IN [book |-> [book EXCEPT !.matchers[order.symbol] = r.m],
             ret |-> IF r.ret THEN "Ok(true)" ELSE "Ok(false)"]
    ELSE [book |-> book, ret |-> "Err(InvalidSymbol)"]

ArrayQueueOrderBook_add_order_fast(book, order) ==
    IF order.symbol \in DOMAIN book.matchers
    THEN LET r == ArrayQueueMatcher_add_order(book.matchers[order.symbol], order)
         IN [book |-> [book EXCEPT !.matchers[order.symbol] = r.m], ret |-> r.ret]
    ELSE [book |-> book, ret |-> FALSE]

\* Safety contract: the caller guarantees order.symbol is a key of matchers.
ArrayQueueOrderBook_add_order_unchecked(book, order) ==
    LET r == ArrayQueueMatcher_add_order_unchecked(book.matchers[order.symbol], order)
    IN [book |-> [book EXCEPT !.matchers[order.symbol] = r.m], old |-> r.old]

ArrayQueueOrderBook_match_orders(book) ==
    LET r == [s \in DOMAIN book.matchers |->
                  ArrayQueueMatcher_match_orders(book.matchers[s])]
    IN [book |-> [book EXCEPT !.matchers = [s \in DOMAIN book.matchers |-> r[s].m]],
        pairs |-> [s \in DOMAIN book.matchers |-> r[s].pairs],
        lost |-> [s \in DOMAIN book.matchers |-> r[s].lost]]

ArrayQueueOrderBook_get_best_prices(book, symbol) ==
    IF symbol \in DOMAIN book.matchers
    THEN Some(ArrayQueueMatcher_get_best_prices(book.matchers[symbol]))
    ELSE None

ArrayQueueOrderBook_can_match(book, symbol) ==
    IF symbol \in DOMAIN book.matchers
    THEN ArrayQueueMatcher_can_match(book.matchers[symbol])
    ELSE FALSE

ArrayQueueOrderBook_is_valid_symbol(book, symbol) == symbol \in book.symbols

ArrayQueueOrderBook_get_symbols(book) == book.symbols

\* ------------------------------------------------------ add_orders_batch_fast

\* The for loop of add_orders_batch_fast: `orders` remain, the counters so far.
\* (u32 counters: a slice of fewer than 2^32 orders cannot overflow them.)
RECURSIVE HashMapOrderBook_batch_loop(_, _, _, _)
HashMapOrderBook_batch_loop(book, orders, successful, failed) ==
    IF orders = <<>>
    THEN [book |-> book, ret |-> <<successful, failed>>]
    ELSE LET r == HashMapOrderBook_add_order_fast(book, Head(orders))
         IN IF r.ret
            THEN HashMapOrderBook_batch_loop(r.book, Tail(orders),
                                             successful + 1, failed)
            ELSE HashMapOrderBook_batch_loop(r.book, Tail(orders),
                                             successful, failed + 1)

HashMapOrderBook_add_orders_batch_fast(book, orders) ==
    HashMapOrderBook_batch_loop(book, orders, 0, 0)

RECURSIVE PriorityQueueOrderBook_batch_loop(_, _, _, _)
PriorityQueueOrderBook_batch_loop(book, orders, added, rejected) ==
    IF orders = <<>>
    THEN [book |-> book, ret |-> <<added, rejected>>]
    ELSE LET r == PriorityQueueOrderBook_add_order_fast(book, Head(orders))
         IN IF r.ret
            THEN PriorityQueueOrderBook_batch_loop(r.book, Tail(orders),
                                                   added + 1, rejected)
            ELSE PriorityQueueOrderBook_batch_loop(r.book, Tail(orders),
                                                   added, rejected + 1)

PriorityQueueOrderBook_add_orders_batch_fast(book, orders) ==
    PriorityQueueOrderBook_batch_loop(book, orders, 0, 0)

RECURSIVE ArrayQueueOrderBook_batch_loop(_, _, _, _)

\* Mutant: the loop gives up at the first order that is refused and counts the
\* rest of the batch as failed.
M_ArrayQueueOrderBook_batch_loop_stop(book, orders, successful, failed) ==
    IF orders = <<>>
    THEN [book |-> book, ret |-> <<successful, failed>>]
    ELSE LET r == ArrayQueueOrderBook_add_order_fast(book, Head(orders))
         IN IF r.ret
            THEN ArrayQueueOrderBook_batch_loop(r.book, Tail(orders),
                                                successful + 1, failed)
            ELSE [book |-> r.book, ret |-> <<successful, failed + Len(orders)>>]

ArrayQueueOrderBook_batch_loop(book, orders, successful, failed) ==
    IF orders = <<>>
    THEN [book |-> book, ret |-> <<successful, failed>>]
    ELSE LET r == ArrayQueueOrderBook_add_order_fast(book, Head(orders))
         IN IF r.ret
            THEN ArrayQueueOrderBook_batch_loop(r.book, Tail(orders),
                                                successful + 1, failed)
            ELSE ArrayQueueOrderBook_batch_loop(r.book, Tail(orders),
                                                successful, failed + 1)

ArrayQueueOrderBook_add_orders_batch_fast(book, orders) ==
    ArrayQueueOrderBook_batch_loop(book, orders, 0, 0)

\* ------------------------------------------------- add_orders_batch_unchecked

\* for order in orders { self.add_order_unchecked(order.clone()) }
\* Safety contract: every symbol of the batch is a key of matchers.
RECURSIVE HashMapOrderBook_unchecked_loop(_, _)
HashMapOrderBook_unchecked_loop(book, orders) ==
    IF orders = <<>>
    THEN book
    ELSE HashMapOrderBook_unchecked_loop(
             HashMapOrderBook_add_order_unchecked(book, Head(orders)), Tail(orders))

\* Returns orders.len() as u32 (a slice of fewer than 2^32 orders).
HashMapOrderBook_add_orders_batch_unchecked(book, orders) ==
    [book |-> HashMapOrderBook_unchecked_loop(book, orders), ret |-> Len(orders)]

\* The loop counts the orders in `added` and returns the count.
RECURSIVE PriorityQueueOrderBook_unchecked_loop(_, _, _)
PriorityQueueOrderBook_unchecked_loop(book, orders, added) ==
    IF orders = <<>>
    THEN [book |-> book, ret |-> added]
    ELSE PriorityQueueOrderBook_unchecked_loop(
             PriorityQueueOrderBook_add_order_unchecked(book, Head(orders)),
             Tail(orders), added + 1)

PriorityQueueOrderBook_add_orders_batch_unchecked(book, orders) ==
    PriorityQueueOrderBook_unchecked_loop(book, orders, 0)

\* Returns the book and, in order, the orders force_push displaced.
RECURSIVE ArrayQueueOrderBook_unchecked_loop(_, _, _)
ArrayQueueOrderBook_unchecked_loop(book, orders, old) ==
    IF orders = <<>>
    THEN [book |-> book, old |-> old]
    ELSE LET r == ArrayQueueOrderBook_add_order_unchecked(book, Head(orders))
         IN ArrayQueueOrderBook_unchecked_loop(r.book, Tail(orders), old \o r.old)

ArrayQueueOrderBook_add_orders_batch_unchecked(book, orders) ==
    LET r == ArrayQueueOrderBook_unchecked_loop(book, orders, <<>>)
    IN [book |-> r.book, old |-> r.old, ret |-> Len(orders)]

\* The per-symbol sequences a pass over the matchers produced, as one sequence.
Flatten(f) ==
    LET RECURSIVE Cat(_)
        Cat(S) == IF S = {} THEN <<>>
                  ELSE LET s == MinOf(S) IN f[s] \o Cat(S \ {s})
    IN Cat(DOMAIN f)

\* ------------------------------------------------------------ OrderRouter

\* engine/order_book.rs: enum OrderBookType
OrderBookType == {"HashMap", "PriorityQueue", "ArrayQueue"}

\* engine/order_book.rs: create_order_book
create_order_book(order_book_type, symbols) ==
    CASE order_book_type = "HashMap" -> HashMapOrderBook_new(symbols)
      [] order_book_type = "PriorityQueue" -> PriorityQueueOrderBook_new(symbols)
      [] order_book_type = "ArrayQueue" -> ArrayQueueOrderBook_new(symbols)

\* fn order_book_type(&self) of each implementation.
HashMapOrderBook_order_book_type(book) == "HashMap"
PriorityQueueOrderBook_order_book_type(book) == "PriorityQueue"
ArrayQueueOrderBook_order_book_type(book) == "ArrayQueue"

\* Mutant: every arm boxes the default implementation.
M_create_order_book_impl_default(order_book_type) == "HashMapOrderBook"

\* The implementation whose value the arm of create_order_book boxes: the
\* type behind the Box<dyn OrderBookTrait>.
create_order_book_impl(order_book_type) ==
    CASE order_book_type = "HashMap" -> "HashMapOrderBook"
      [] order_book_type = "PriorityQueue" -> "PriorityQueueOrderBook"
      [] order_book_type = "ArrayQueue" -> "ArrayQueueOrderBook"

\* order_book_type() called through the box: the implementation behind the
\* box selects the method.
Dyn_order_book_type(impl, book) ==
    CASE impl = "HashMapOrderBook" -> HashMapOrderBook_order_book_type(book)
      [] impl = "PriorityQueueOrderBook" -> PriorityQueueOrderBook_order_book_type(book)
      [] impl = "ArrayQueueOrderBook" -> ArrayQueueOrderBook_order_book_type(book)

\* Calls through Box<dyn OrderBookTrait>: the book's kind selects the method.
Dyn_add_order_fast(order_book_type, book, order) ==
    CASE order_book_type = "HashMap" -> HashMapOrderBook_add_order_fast(book, order)
      [] order_book_type = "PriorityQueue" ->
             PriorityQueueOrderBook_add_order_fast(book, order)
      [] order_book_type = "ArrayQueue" ->
             ArrayQueueOrderBook_add_order_fast(book, order)

Dyn_match_orders(order_book_type, book) ==
    CASE order_book_type = "HashMap" -> HashMapOrderBook_match_orders(book)
      [] order_book_type = "PriorityQueue" -> PriorityQueueOrderBook_match_orders(book)
      [] order_book_type = "ArrayQueue" -> ArrayQueueOrderBook_match_orders(book)

Dyn_get_symbols(order_book_type, book) ==
    CASE order_book_type = "HashMap" -> HashMapOrderBook_get_symbols(book)
      [] order_book_type = "PriorityQueue" -> PriorityQueueOrderBook_get_symbols(book)
      [] order_book_type = "ArrayQueue" -> ArrayQueueOrderBook_get_symbols(book)

Dyn_get_best_prices(order_book_type, book, symbol) ==
    CASE order_book_type = "HashMap" ->
             HashMapOrderBook_get_best_prices(book, symbol)
      [] order_book_type = "PriorityQueue" ->
             PriorityQueueOrderBook_get_best_prices(book, symbol)
      [] order_book_type = "ArrayQueue" ->
             ArrayQueueOrderBook_get_best_prices(book, symbol)

Dyn_can_match(order_book_type, book, symbol) ==
    CASE order_book_type = "HashMap" -> HashMapOrderBook_can_match(book, symbol)
      [] order_book_type = "PriorityQueue" ->
             PriorityQueueOrderBook_can_match(book, symbol)
      [] order_book_type = "ArrayQueue" ->
             ArrayQueueOrderBook_can_match(book, symbol)

\* Mutant: every key shares one book constructed with the whole symbol set.
M_OrderRouter_new_direct_shared(symbols, order_book_type) ==
    [direct_order_books |->
         [symbol \in symbols |-> create_order_book(order_book_type, symbols)],
     order_book_type |-> order_book_type]

OrderRouter_new_direct(symbols, order_book_type) ==
    [direct_order_books |->
         [symbol \in symbols |-> create_order_book(order_book_type, {symbol})],
     order_book_type |-> order_book_type]

\* Mutant: the result of add_order_fast is passed on: a refused order is an Err.
M_OrderRouter_route_order_propagate(r, order) ==
    IF order.symbol \in DOMAIN r.direct_order_books
    THEN LET a == Dyn_add_order_fast(r.order_book_type,
                                     r.direct_order_books[order.symbol], order)
         IN [router |-> [r EXCEPT !.direct_order_books[order.symbol] = a.book],
             ret |-> IF a.ret THEN "Ok(())" ELSE "Err(Invalid symbol)"]
    ELSE [router |-> r, ret |-> "Err(Invalid symbol)"]

\* Mutant: an unknown symbol gets a book of its own and the order is stored.
M_OrderRouter_route_order_create(r, order) ==
    LET books == IF order.symbol \in DOMAIN r.direct_order_books
                 THEN r.direct_order_books
                 ELSE MapPut(r.direct_order_books, order.symbol,
                             create_order_book(r.order_book_type, {order.symbol}))
    IN [router |-> [r EXCEPT !.direct_order_books =
                        MapPut(books, order.symbol,
                               Dyn_add_order_fast(r.order_book_type,
                                                  books[order.symbol], order).book)],
        ret |-> "Ok(())"]

OrderRouter_route_order(r, order) ==
    IF order.symbol \in DOMAIN r.direct_order_books
    THEN [router |-> [r EXCEPT !.direct_order_books[order.symbol] =
                         Dyn_add_order_fast(r.order_book_type, @, order).book],
          ret |-> "Ok(())"]
    ELSE [router |-> r, ret |-> "Err(Invalid symbol)"]

\* Mutant: the pass stops after the first book.
M_OrderRouter_match_all_orders_first(r, visit) ==
    IF visit = <<>>
    THEN [router |-> r, pairs |-> [s \in DOMAIN r.direct_order_books |-> <<>>]]
    ELSE LET m == Dyn_match_orders(r.order_book_type,
                                   r.direct_order_books[Head(visit)])
         IN [router |-> [r EXCEPT !.direct_order_books[Head(visit)] = m.book],
             pairs |-> [s \in DOMAIN r.direct_order_books |->
                            IF s = Head(visit) THEN Flatten(m.pairs) ELSE <<>>]]

\* match_all_orders visits the books in the map's iteration order, `visit`.
\* Returns the router and, per key, the pairs its book consumed.
RECURSIVE OrderRouter_match_all_orders(_, _)
OrderRouter_match_all_orders(r, visit) ==
    IF visit = <<>>
    THEN [router |-> r, pairs |-> [s \in DOMAIN r.direct_order_books |-> <<>>]]
    ELSE LET m == Dyn_match_orders(r.order_book_type,
                                   r.direct_order_books[Head(visit)])
             rest == OrderRouter_match_all_orders(
                         [r EXCEPT !.direct_order_books[Head(visit)] = m.book],
                         Tail(visit))
         IN [rest EXCEPT !.pairs[Head(visit)] = Flatten(m.pairs) \o @]

\* Mutant: the owner of one book runs the pass over every book.
M_OrderRouter_match_book_all(r, symbol) ==
    LET m == [s \in DOMAIN r.direct_order_books |->
                  Dyn_match_orders(r.order_book_type, r.direct_order_books[s])]
    IN [router |-> [r EXCEPT !.direct_order_books =
                        [s \in DOMAIN r.direct_order_books |-> m[s].book]],
        pairs |-> Flatten(m[symbol].pairs)]

\* order_book.match_orders() on the book of one symbol: what the pass of
\* match_all_orders does to one value of the map, and what the owner of that
\* book does when it matches.  Returns the router and the pairs consumed.
OrderRouter_match_book(r, symbol) ==
    LET m == Dyn_match_orders(r.order_book_type, r.direct_order_books[symbol])
    IN [router |-> [r EXCEPT !.direct_order_books[symbol] = m.book],
        pairs |-> Flatten(m.pairs)]

OrderRouter_get_implementation_name(r) ==
    CASE r.order_book_type = "HashMap" -> "HashMap"
      [] r.order_book_type = "PriorityQueue" -> "PriorityQueue"
      [] r.order_book_type = "ArrayQueue" -> "ArrayQueue"

OrderRouter_supports_symbol(r, symbol) == symbol \in DOMAIN r.direct_order_books

OrderRouter_get_symbols(r) == DOMAIN r.direct_order_books

\* ---------------------------------------------------------- state machine

VARIABLES
    hm,        \* the HashMapOrderBook
    pq,        \* the PriorityQueueOrderBook
    aq,        \* the ArrayQueueOrderBook
    last,      \* the last call: its name and what each book returned (and the
               \* batch, for a batch call)
    trades,    \* per book and symbol, the pairs <<bid, ask>> consumed by matching
    evicted,   \* per symbol, the orders force_push displaced from an ArrayQueue ring
    lost,      \* per book, the orders match_orders popped on one side only
    usedIds,   \* identifiers already given to an order
    inOrder,   \* whether identifiers were so far assigned in arrival order
    router,    \* the OrderRouter
    rlast,     \* the last call on the router: its name and what it returned
    rtrades,   \* per symbol, the pairs the router's book consumed, in order
    solo       \* per symbol, the router as it would be had only the owner of
               \* that symbol called it

vars == <<hm, pq, aq, last, trades, evicted, lost, usedIds, inOrder,
          router, rlast, rtrades, solo>>

bookVars == <<hm, pq, aq, last, trades, evicted, lost>>
routerVars == <<router, rlast, rtrades, solo>>

Backends == {"hm", "pq", "aq"}

\* Return values as `last` records them: () and the booleans by their text.
Unit == "()"
Shown(b) == IF b THEN "true" ELSE "false"

\* The books and the router right after construction; the router is of the
\* given kind.
InitWith(order_book_type) ==
    /\ hm = HashMapOrderBook_new(BookSymbols)
    /\ pq = PriorityQueueOrderBook_new(BookSymbols)
    /\ aq = ArrayQueueOrderBook_new(BookSymbols)
    /\ last = [op |-> "new", ret |-> [b \in Backends |-> Unit]]
    /\ trades = [b \in Backends |-> [s \in BookSymbols |-> <<>>]]
    /\ evicted = [s \in BookSymbols |-> <<>>]
    /\ lost = [b \in Backends |-> <<>>]
    /\ usedIds = {}
    /\ inOrder = TRUE
    /\ router = OrderRouter_new_direct(BookSymbols, order_book_type)
    /\ rlast = [op |-> "new_direct", ret |-> Unit]
    /\ rtrades = [s \in BookSymbols |-> <<>>]
    /\ solo = [s \in BookSymbols |->
                   OrderRouter_new_direct(BookSymbols, order_book_type)]

\* main.rs constructs the router with OrderBookType::HashMap.
Init == InitWith("HashMap")

\* The caller creates an order with a fresh identifier.
Fresh(order) ==
    /\ order.id \notin usedIds
    /\ usedIds' = usedIds \cup {order.id}
    /\ inOrder' = (inOrder /\ \A i \in usedIds : i < order.id)

\* OrderBookTrait::add_order on each book.
AddOrder(order) ==
    LET h == HashMapOrderBook_add_order(hm, order)
        p == PriorityQueueOrderBook_add_order(pq, order)
        a == ArrayQueueOrderBook_add_order(aq, order)
    IN /\ Fresh(order)
       /\ hm' = h.book
       /\ pq' = p.book
       /\ aq' = a.book
       /\ last' = [op |-> "add_order",
                   ret |-> [hm |-> h.ret, pq |-> p.ret, aq |-> a.ret]]
       /\ UNCHANGED <<trades, evicted, lost>>
       /\ UNCHANGED routerVars

\* OrderBookTrait::add_order_fast on each book.
AddOrderFast(order) ==
    LET h == HashMapOrderBook_add_order_fast(hm, order)
        p == PriorityQueueOrderBook_add_order_fast(pq, order)
        a == ArrayQueueOrderBook_add_order_fast(aq, order)
    IN /\ Fresh(order)
       /\ hm' = h.book
       /\ pq' = p.book
       /\ aq' = a.book
       /\ last' = [op |-> "add_order_fast",
                   ret |-> [hm |-> Shown(h.ret), pq |-> Shown(p.ret),
                            aq |-> Shown(a.ret)]]
       /\ UNCHANGED <<trades, evicted, lost>>
       /\ UNCHANGED routerVars

\* OrderBookTrait::add_order_unchecked on each book.  The caller keeps the
\* safety contract: the symbol is one of the book's.
AddOrderUnchecked(order) ==
    LET a == ArrayQueueOrderBook_add_order_unchecked(aq, order)
    IN /\ order.symbol \in DOMAIN hm.matchers
       /\ order.symbol \in DOMAIN pq.matchers
       /\ order.symbol \in DOMAIN aq.matchers
       /\ Fresh(order)
       /\ hm' = HashMapOrderBook_add_order_unchecked(hm, order)
       /\ pq' = PriorityQueueOrderBook_add_order_unchecked(pq, order)
       /\ aq' = a.book
       /\ evicted' = [evicted EXCEPT ![order.symbol] = @ \o a.old]
       /\ last' = [op |-> "add_order_unchecked",
                   ret |-> [b \in Backends |-> Unit]]
       /\ UNCHANGED <<trades, lost>>
       /\ UNCHANGED routerVars

\* OrderBookTrait::match_orders on each book.
MatchOrders ==
    LET h == HashMapOrderBook_match_orders(hm)
        p == PriorityQueueOrderBook_match_orders(pq)
        a == ArrayQueueOrderBook_match_orders(aq)
    IN /\ hm' = h.book
       /\ pq' = p.book
       /\ aq' = a.book
       /\ trades' = [hm |-> [s \in BookSymbols |-> trades.hm[s] \o h.pairs[s]],
                     pq |-> [s \in BookSymbols |-> trades.pq[s] \o p.pairs[s]],
                     aq |-> [s \in BookSymbols |-> trades.aq[s] \o a.pairs[s]]]
       /\ lost' = [hm |-> lost.hm \o Flatten(h.lost),
                   pq |-> lost.pq \o Flatten(p.lost),
                   aq |-> lost.aq \o Flatten(a.lost)]
       /\ last' = [op |-> "match_orders",
                   ret |-> [b \in Backends |-> Unit]]
       /\ UNCHANGED <<evicted, usedIds, inOrder>>
       /\ UNCHANGED routerVars

Next ==
    \/ \E order \in Orders : AddOrder(order)
    \/ \E order \in Orders : AddOrderFast(order)
    \/ \E order \in Orders : AddOrderUnchecked(order)
    \/ MatchOrders

Spec == Init /\ [][Next]_vars

\* A caller that trades one symbol through the fast path, numbering its
\* orders in arrival order (as main.rs does), for runs long enough to fill
\* both rings of the symbol.
AqSymbol == MinOf(BookSymbols)
AqOrders ==
    {Order(i, AqSymbol, QuantityOf(i), p, t) :
         i \in 1..MaxAqId, p \in Prices, t \in {"Buy", "Sell"}}

AqAddOrderFast ==
    \E order \in AqOrders :
        order.id = Cardinality(usedIds) + 1 /\ AddOrderFast(order)

AqNext ==
    \/ AqAddOrderFast
    \/ MatchOrders

SpecAq == Init /\ [][AqNext]_vars

\* A caller that submits its orders in batches, for one symbol of the books and
\* for a symbol they do not know, numbering them in arrival order.
MaxBatch == 2
MaxBatchId == 4

\* The batches a caller that has submitted `submitted` orders may pass: up to
\* MaxBatch orders, each with the next identifier.
BatchChoices(n) ==
    [1..n -> [symbol : {AqSymbol}, price : Prices, order_type : {"Buy", "Sell"}]
             \cup [symbol : AllSymbols \ BookSymbols, price : {MinOf(Prices)},
                    order_type : {"Buy"}]]
BatchOrder(submitted, i, c) ==
    Order(submitted + i, c.symbol, QuantityOf(submitted + i), c.price, c.order_type)
Batches(submitted) ==
    UNION {{[i \in 1..n |-> BatchOrder(submitted, i, b[i])] : b \in BatchChoices(n)} :
           n \in 0..MaxBatch}

\* OrderBookTrait::add_orders_batch_fast on each book.
AddOrdersBatchFast(orders) ==
    LET h == HashMapOrderBook_add_orders_batch_fast(hm, orders)
        p == PriorityQueueOrderBook_add_orders_batch_fast(pq, orders)
        a == ArrayQueueOrderBook_add_orders_batch_fast(aq, orders)
    IN /\ Cardinality(usedIds) + Len(orders) <= MaxBatchId
       /\ usedIds' = usedIds \cup {orders[i].id : i \in 1..Len(orders)}
       /\ UNCHANGED inOrder
       /\ hm' = h.book
       /\ pq' = p.book
       /\ aq' = a.book
       /\ last' = [op |-> "add_orders_batch_fast",
                   ret |-> [hm |-> h.ret, pq |-> p.ret, aq |-> a.ret],
                   orders |-> orders]
       /\ UNCHANGED <<trades, evicted, lost>>
       /\ UNCHANGED routerVars

BatchNext ==
    \/ \E orders \in Batches(Cardinality(usedIds)) : AddOrdersBatchFast(orders)
    \/ MatchOrders

SpecBatch == Init /\ [][BatchNext]_vars

\* The router, constructed with any kind of book, driven by a caller that
\* numbers its orders in arrival order.
MaxRouterId == 4

\* The caller bids at the low price and asks at either price: an ask at the
\* low price crosses the bids, an ask at the high price does not.
RouterOrders ==
    {Order(i, s, QuantityOf(i), MinOf(Prices), "Buy") :
         i \in 1..MaxRouterId, s \in AllSymbols}
    \cup
    {Order(i, s, QuantityOf(i), p, "Sell") :
         i \in 1..MaxRouterId, s \in AllSymbols, p \in Prices}

RouterInit == \E order_book_type \in OrderBookType : InitWith(order_book_type)

\* OrderRouter::route_order
RouteOrder(order) ==
    LET r == OrderRouter_route_order(router, order)
    IN /\ order.id = Cardinality(usedIds) + 1
       /\ Fresh(order)
       /\ router' = r.router
       /\ rlast' = [op |-> "route_order", ret |-> r.ret]
       /\ UNCHANGED <<rtrades, solo>>
       /\ UNCHANGED bookVars

\* The orders in which a pass may visit the keys of a map.
Visits(keys) ==
    {v \in [1..Cardinality(keys) -> keys] : \A k \in keys : \E i \in DOMAIN v : v[i] = k}

\* OrderRouter::match_all_orders
MatchAllOrders ==
    \E visit \in Visits(DOMAIN router.direct_order_books) :
        LET r == OrderRouter_match_all_orders(router, visit)
        IN /\ router' = r.router
           /\ rlast' = [op |-> "match_all_orders", ret |-> Unit]
           /\ rtrades' = [s \in BookSymbols |-> rtrades[s] \o r.pairs[s]]
           /\ UNCHANGED <<usedIds, inOrder, solo>>
           /\ UNCHANGED bookVars

RouterNext ==
    \/ \E order \in RouterOrders : RouteOrder(order)
    \/ MatchAllOrders

SpecRouter == RouterInit /\ [][RouterNext]_vars

\* ---------------------------------------------------------------------------
\* BookRoute: a symbol and the boxed book it owns, driven through
\* process_order alone.

BookRoute_new(symbol, order_book) ==
    [symbol |-> symbol, order_book |-> order_book]

\* Mutant: the order is added and no match pass follows.
M_BookRoute_process_order_nomatch(order_book_type, route, order) ==
    LET a == Dyn_add_order_fast(order_book_type, route.order_book, order)
    IN [route |-> [route EXCEPT !.order_book = a.book],
        added |-> a.ret,
        pairs |-> [s \in DOMAIN a.book.matchers |-> <<>>],
        lost |-> [s \in DOMAIN a.book.matchers |-> <<>>]]

\* let _ = self.order_book.add_order_fast(order); self.order_book.match_orders();
\* `added` is the result the code discards; pairs and lost are what the match
\* pass consumed.
BookRoute_process_order(order_book_type, route, order) ==
    LET a == Dyn_add_order_fast(order_book_type, route.order_book, order)
        m == Dyn_match_orders(order_book_type, a.book)
    IN [route |-> [route EXCEPT !.order_book = m.book],
        added |-> a.ret,
        pairs |-> m.pairs,
        lost |-> m.lost]

\* The symbol field of the routes; process_order never reads it.
RouteSymbol == MinOf(BookSymbols)

\* One call of process_order on three routes, one per kind of book, each
\* owning the book of that kind.
ProcessOrder(order) ==
    LET h == BookRoute_process_order("HashMap", BookRoute_new(RouteSymbol, hm), order)
        p == BookRoute_process_order("PriorityQueue",
                                     BookRoute_new(RouteSymbol, pq), order)
        a == BookRoute_process_order("ArrayQueue", BookRoute_new(RouteSymbol, aq), order)
    IN /\ Fresh(order)
       /\ hm' = h.route.order_book
       /\ pq' = p.route.order_book
       /\ aq' = a.route.order_book
       /\ trades' = [hm |-> [s \in BookSymbols |-> trades.hm[s] \o h.pairs[s]],
                     pq |-> [s \in BookSymbols |-> trades.pq[s] \o p.pairs[s]],
                     aq |-> [s \in BookSymbols |-> trades.aq[s] \o a.pairs[s]]]
       /\ lost' = [hm |-> lost.hm \o Flatten(h.lost),
                   pq |-> lost.pq \o Flatten(p.lost),
                   aq |-> lost.aq \o Flatten(a.lost)]
       /\ last' = [op |-> "process_order",
                   ret |-> [b \in Backends |-> Unit],
                   order |-> order,
                   added |-> [hm |-> h.added, pq |-> p.added, aq |-> a.added]]
       /\ UNCHANGED evicted
       /\ UNCHANGED routerVars

MaxRouteId == 4

RouteOrders ==
    {Order(i, s, QuantityOf(i), p, t) :
        i \in {Cardinality(usedIds) + 1} \cap (1..MaxRouteId),
        s \in AllSymbols, p \in Prices, t \in {"Buy", "Sell"}}

RouteNext == \E order \in RouteOrders : ProcessOrder(order)

SpecRoute == Init /\ [][RouteNext]_vars

\* The router shared by one owner per symbol.  Each owner calls only on the
\* book of its own symbol: route_order with its own orders, and match_orders on
\* its own book.  A call reads and writes nothing but the map entry of its
\* symbol, so calls of different owners are taken one after the other, in any
\* order.  `solo` repeats each owner's calls on a router no one else calls.
OwnOrders(s) == {order \in RouterOrders : order.symbol = s}

OwnerRouteOrder(s, order) ==
    LET r == OrderRouter_route_order(router, order)
        alone == OrderRouter_route_order(solo[s], order)
    IN /\ order.id = Cardinality(usedIds) + 1
       /\ Fresh(order)
       /\ router' = r.router
       /\ solo' = [solo EXCEPT ![s] = alone.router]
       /\ rlast' = [op |-> "route_order", ret |-> r.ret, alone |-> alone.ret,
                    owner |-> s]
       /\ UNCHANGED rtrades
       /\ UNCHANGED bookVars

OwnerMatchOrders(s) ==
    LET r == OrderRouter_match_book(router, s)
        alone == OrderRouter_match_book(solo[s], s)
    IN /\ router' = r.router
       /\ solo' = [solo EXCEPT ![s] = alone.router]
       /\ rlast' = [op |-> "match_orders", ret |-> r.pairs, alone |-> alone.pairs,
                    owner |-> s]
       /\ rtrades' = [rtrades EXCEPT ![s] = @ \o r.pairs]
       /\ UNCHANGED <<usedIds, inOrder>>
       /\ UNCHANGED bookVars

OwnerNext ==
    \/ \E s \in BookSymbols : \E order \in OwnOrders(s) : OwnerRouteOrder(s, order)
    \/ \E s \in BookSymbols : OwnerMatchOrders(s)

SpecOwners == RouterInit /\ [][OwnerNext]_vars

\* A caller that trades one symbol of the books, and a symbol they do not
\* know, through every call of the trait, taking identifiers in any order.
MaxOneId == 3

OneOrders ==
    {Order(i, s, QuantityOf(i), p, t) :
         i \in 1..MaxOneId, s \in {AqSymbol} \cup (AllSymbols \ BookSymbols),
         p \in Prices, t \in {"Buy", "Sell"}}

OneNext ==
    \/ \E order \in OneOrders : AddOrder(order)
    \/ \E order \in OneOrders : AddOrderFast(order)
    \/ \E order \in OneOrders : AddOrderUnchecked(order)
    \/ MatchOrders

SpecOne == Init /\ [][OneNext]_vars

\* OrderBookTrait::add_orders_batch_unchecked on each book.  The caller keeps
\* the safety contract: every symbol of the batch is one of the book's.
AddOrdersBatchUnchecked(orders) ==
    LET h == HashMapOrderBook_add_orders_batch_unchecked(hm, orders)
        p == PriorityQueueOrderBook_add_orders_batch_unchecked(pq, orders)
        a == ArrayQueueOrderBook_add_orders_batch_unchecked(aq, orders)
    IN /\ \A i \in 1..Len(orders) :
              /\ orders[i].symbol \in DOMAIN hm.matchers
              /\ orders[i].symbol \in DOMAIN pq.matchers
              /\ orders[i].symbol \in DOMAIN aq.matchers
       /\ usedIds' = usedIds \cup {orders[i].id : i \in 1..Len(orders)}
       /\ UNCHANGED inOrder
       /\ hm' = h.book
       /\ pq' = p.book
       /\ aq' = a.book
       /\ evicted' = [s \in BookSymbols |->
                         evicted[s] \o SelectSeq(a.old, LAMBDA o : o.symbol = s)]
       /\ last' = [op |-> "add_orders_batch_unchecked",
                   ret |-> [hm |-> h.ret, pq |-> p.ret, aq |-> a.ret],
                   orders |-> orders]
       /\ UNCHANGED <<trades, lost>>
       /\ UNCHANGED routerVars

\* A caller that uses every state-changing call of the trait on one symbol of
\* the books (and, where the call allows it, on a symbol they do not know),
\* numbering its orders in arrival order.
MaxTraitId == 3

TraitOrders ==
    {o \in OneOrders : o.id = Cardinality(usedIds) + 1 /\ o.id <= MaxTraitId}

TraitBatches ==
    {orders \in Batches(Cardinality(usedIds)) :
         Cardinality(usedIds) + Len(orders) <= MaxTraitId}

TraitNext ==
    \/ \E order \in TraitOrders : AddOrder(order)
    \/ \E order \in TraitOrders : AddOrderFast(order)
    \/ \E order \in TraitOrders : AddOrderUnchecked(order)
    \/ \E orders \in TraitBatches : AddOrdersBatchFast(orders)
    \/ \E orders \in TraitBatches : AddOrdersBatchUnchecked(orders)
    \/ MatchOrders

SpecTrait == Init /\ [][TraitNext]_vars

\* ---------------------------------------------------------------------------
\* The books driven by batch calls of one order each, fast and unchecked, and
\* by match_orders: every order handed to a book is on record in `last`.

MaxLedgerId == 4

LedgerBatches ==
    IF Cardinality(usedIds) + 1 <= MaxLedgerId
    THEN {[i \in 1..1 |-> BatchOrder(Cardinality(usedIds), i, b[i])] :
             b \in BatchChoices(1)}
    ELSE {}

LedgerNext ==
    \/ \E orders \in LedgerBatches : AddOrdersBatchFast(orders)
    \/ \E orders \in LedgerBatches : AddOrdersBatchUnchecked(orders)
    \/ MatchOrders

SpecLedger == Init /\ [][LedgerNext]_vars

\* ---------------------------------------------------------------------------
\* The three books and the router side by side, driven through the entry
\* points that look the symbol up: add_order, add_order_fast,
\* add_orders_batch_fast and match_orders on the books, route_order and
\* match_all_orders on the router.

MaxContainId == 2

ContainOrders ==
    {Order(i, s, QuantityOf(i), MinOf(Prices), t) :
        i \in {Cardinality(usedIds) + 1} \cap (1..MaxContainId),
        s \in AllSymbols, t \in {"Buy", "Sell"}}

ContainBatches ==
    {orders \in Batches(Cardinality(usedIds)) :
         Len(orders) >= 1 /\ Cardinality(usedIds) + Len(orders) <= MaxContainId}

ContainNext ==
    \/ \E order \in ContainOrders : AddOrder(order)
    \/ \E order \in ContainOrders : AddOrderFast(order)
    \/ \E orders \in ContainBatches : AddOrdersBatchFast(orders)
    \/ MatchOrders
    \/ \E order \in ContainOrders : RouteOrder(order)
    \/ MatchAllOrders

SpecContain == RouterInit /\ [][ContainNext]_vars

\* ------------------------------------------------- what the claims speak of

Range(seq) == {seq[i] : i \in 1..Len(seq)}

\* The resting orders of one symbol and side, read off the collections.
HmBids(s) == UNION {Range(hm.matchers[s].bid_levels[p].orders) :
                        p \in DOMAIN hm.matchers[s].bid_levels}
HmAsks(s) == UNION {Range(hm.matchers[s].ask_levels[p].orders) :
                        p \in DOMAIN hm.matchers[s].ask_levels}
PqBids(s) == pq.matchers[s].bids
PqAsks(s) == pq.matchers[s].asks
AqBids(s) == Range(aq.matchers[s].bids.items)
AqAsks(s) == Range(aq.matchers[s].asks.items)

PricesOf(orders) == {o.price : o \in orders}

\* The exact best prices of a set of resting bids / asks.
ExactBestBid(orders) == IF orders = {} THEN None ELSE Some(MaxOf(PricesOf(orders)))
ExactBestAsk(orders) == IF orders = {} THEN None ELSE Some(MinOf(PricesOf(orders)))

Uncrossed(bids, asks) ==
    (bids /= {} /\ asks /= {}) => MaxOf(PricesOf(bids)) < MinOf(PricesOf(asks))

\* The bids / asks of the pairs a book consumed on a symbol, and the place of
\* an order among them (identifiers are unique, so an order occurs once).
TradedBids(pairs) == {pairs[i][1] : i \in 1..Len(pairs)}
TradedAsks(pairs) == {pairs[i][2] : i \in 1..Len(pairs)}
BidPlace(pairs, o) == CHOOSE i \in 1..Len(pairs) : pairs[i][1] = o

\* The orders a step may have been called with: those that carry the
\* identifier the step took.
OrdersWithId(i) ==
    {Order(i, s, QuantityOf(i), p, t) : s \in AllSymbols, p \in Prices,
                                        t \in {"Buy", "Sell"}}
StepOrders == UNION {OrdersWithId(i) : i \in usedIds' \ usedIds}

\* The step is the call `op` made with `order`.
IsAddOrder(order) == last'.op = "add_order" /\ AddOrder(order)
IsAddOrderFast(order) == last'.op = "add_order_fast" /\ AddOrderFast(order)
IsAddOrderUnchecked(order) ==
    last'.op = "add_order_unchecked" /\ AddOrderUnchecked(order)

\* ----------------------------------------------------------------- claims

\* C1: on all three backends add_order with an order whose symbol is not in the
\* book's construction symbol set returns Err(InvalidSymbol) and leaves the
\* whole book (resting orders, cached best prices, symbol set) as it was.
C1_InvalidSymbolRejected ==
    [][\A order \in StepOrders :
          (order.symbol \notin BookSymbols /\ IsAddOrder(order)) =>
              /\ last'.ret.hm = "Err(InvalidSymbol)"
              /\ last'.ret.pq = "Err(InvalidSymbol)"
              /\ last'.ret.aq = "Err(InvalidSymbol)"
              /\ hm' = hm /\ pq' = pq /\ aq' = aq]_vars

\* An unknown symbol was refused while orders rest in every book.
C1_Witness ==
    /\ last.op = "add_order"
    /\ last.ret.hm = "Err(InvalidSymbol)"
    /\ last.ret.pq = "Err(InvalidSymbol)"
    /\ last.ret.aq = "Err(InvalidSymbol)"
    /\ \E s \in BookSymbols : HmBids(s) /= {} /\ PqBids(s) /= {} /\ AqBids(s) /= {}

\* C2: on the HashMap and PriorityQueue backends every symbol is uncrossed when
\* match_orders returns: with both sides non-empty the best bid is strictly
\* below the best ask, and can_match(symbol) is false.
C2_UncrossedAfterMatch ==
    last.op = "match_orders" =>
        \A s \in BookSymbols :
            /\ Uncrossed(HmBids(s), HmAsks(s))
            /\ Uncrossed(PqBids(s), PqAsks(s))
            /\ ~HashMapOrderBook_can_match(hm, s)
            /\ ~PriorityQueueOrderBook_can_match(pq, s)

\* match_orders returned after consuming a pair, and orders still rest.
C2_Witness ==
    /\ last.op = "match_orders"
    /\ \E s \in BookSymbols :
           /\ trades.hm[s] /= <<>> /\ trades.pq[s] /= <<>>
           /\ HmBids(s) \cup HmAsks(s) /= {}
           /\ PqBids(s) \cup PqAsks(s) /= {}

\* C3: on every backend each pair removed by match_orders is one Buy and one
\* Sell of the matcher's symbol with bid.price >= ask.price.
C3_MatchedPairsCross ==
    \A b \in Backends : \A s \in BookSymbols : \A i \in 1..Len(trades[b][s]) :
        LET bid == trades[b][s][i][1]
            ask == trades[b][s][i][2]
        IN /\ bid.order_type = "Buy" /\ ask.order_type = "Sell"
           /\ bid.symbol = s /\ ask.symbol = s
           /\ bid.price >= ask.price

\* Every backend consumed a pair whose bid is priced strictly above its ask.
C3_Witness ==
    \A b \in Backends : \E s \in BookSymbols : \E i \in 1..Len(trades[b][s]) :
        trades[b][s][i][1].price > trades[b][s][i][2].price

\* Of two orders resting before a step, `later` is consumed by the step only
\* if `first` is consumed too, and earlier (pairs is the log after the step).
ConsumedInTurn(pairs, first, later) ==
    later \in TradedBids(pairs) =>
        /\ first \in TradedBids(pairs)
        /\ BidPlace(pairs, first) < BidPlace(pairs, later)

\* PriorityQueue: of two resting bids at one price the lower identifier goes first.
PqBidsByIdentifier ==
    \A s \in BookSymbols : \A o1, o2 \in PqBids(s) :
        (o1.price = o2.price /\ o1.id < o2.id) =>
            ConsumedInTurn(trades'.pq[s], o1, o2)

\* HashMap: of two resting bids at one price the lower identifier goes first.
HmBidsByIdentifier ==
    \A s \in BookSymbols : \A o1, o2 \in HmBids(s) :
        (o1.price = o2.price /\ o1.id < o2.id) =>
            ConsumedInTurn(trades'.hm[s], o1, o2)

\* HashMap: of two resting bids at one price the one added first goes first.
HmBidsByArrival ==
    \A s \in BookSymbols : \A p \in DOMAIN hm.matchers[s].bid_levels :
        LET fifo == hm.matchers[s].bid_levels[p].orders
        IN \A i, j \in 1..Len(fifo) :
               i < j => ConsumedInTurn(trades'.hm[s], fifo[i], fifo[j])

\* C4 as stated: on the HashMap and the PriorityQueue backend, of two bids of
\* one symbol at equal price, the one with the lower identifier is removed by
\* matching before the other, whichever was added first.
C4_Original == [][PqBidsByIdentifier /\ HmBidsByIdentifier]_vars

\* C4 as amended: on the PriorityQueue backend, of two bids of one symbol at
\* equal price, the one with the lower identifier is removed by matching before
\* the other, whichever was added first; on the HashMap backend the one added
\* first is removed first, whatever the identifiers.
C4_PriceTimePriority == [][PqBidsByIdentifier /\ HmBidsByArrival]_vars

\* Two equal-priced bids were added with the higher identifier first and one
\* of them was matched: the PriorityQueue book consumed the lower identifier,
\* the HashMap book the higher one, which had arrived first.
C4_Witness ==
    \E s \in BookSymbols :
        /\ \E i \in 1..Len(trades.pq[s]) : \E o \in PqBids(s) :
               o.price = trades.pq[s][i][1].price /\ o.id > trades.pq[s][i][1].id
        /\ \E j \in 1..Len(trades.hm[s]) : \E o \in HmBids(s) :
               o.price = trades.hm[s][j][1].price /\ o.id < trades.hm[s][j][1].id

\* C5: when identifiers are unique and assigned in arrival order, the
\* PriorityQueue book and the HashMap book consume the same pairs in the same
\* order, hold the same resting orders, and answer get_best_prices and
\* can_match alike, after every call.
C5_PriorityQueueEquivalentToHashMap ==
    inOrder =>
        \A s \in AllSymbols :
            /\ s \in BookSymbols =>
                   /\ trades.pq[s] = trades.hm[s]
                   /\ PqBids(s) = HmBids(s)
                   /\ PqAsks(s) = HmAsks(s)
            /\ PriorityQueueOrderBook_get_best_prices(pq, s)
                   = HashMapOrderBook_get_best_prices(hm, s)
            /\ PriorityQueueOrderBook_can_match(pq, s)
                   = HashMapOrderBook_can_match(hm, s)

\* Identifiers came in arrival order, a pair was consumed, and a bid at the
\* consumed bid's price still rests: the tie was broken the same way.
C5_Witness ==
    /\ inOrder
    /\ \E s \in BookSymbols : \E o \in PqBids(s) :
           /\ trades.pq[s] /= <<>>
           /\ trades.hm[s] /= <<>>
           /\ o.price = trades.pq[s][1][1].price

\* What get_best_prices reports: a best bid and a best ask that cross.
ReportsCross(report) ==
    /\ IsSome(report)
    /\ IsSome(Unwrap(report)[1])
    /\ IsSome(Unwrap(report)[2])
    /\ Unwrap(Unwrap(report)[1]) >= Unwrap(Unwrap(report)[2])

\* C6: on every backend can_match(symbol) is true iff the symbol is known and
\* get_best_prices(symbol) reports a best bid >= a best ask; it is false for
\* every unknown symbol.
C6_CanMatchIffReportedCross ==
    \A s \in AllSymbols :
        /\ HashMapOrderBook_can_match(hm, s)
               = (s \in BookSymbols /\ ReportsCross(HashMapOrderBook_get_best_prices(hm, s)))
        /\ PriorityQueueOrderBook_can_match(pq, s)
               = (s \in BookSymbols
                  /\ ReportsCross(PriorityQueueOrderBook_get_best_prices(pq, s)))
        /\ ArrayQueueOrderBook_can_match(aq, s)
               = (s \in BookSymbols
                  /\ ReportsCross(ArrayQueueOrderBook_get_best_prices(aq, s)))

\* Every book can match on one symbol while on another the bid rests below
\* the ask and no book can match.
C6_Witness ==
    \E s, t \in BookSymbols :
        /\ ~HashMapOrderBook_can_match(hm, t)
        /\ ~PriorityQueueOrderBook_can_match(pq, t)
        /\ ~ArrayQueueOrderBook_can_match(aq, t)
        /\ AqBids(t) /= {}
        /\ HashMapOrderBook_can_match(hm, s)
        /\ PriorityQueueOrderBook_can_match(pq, s)
        /\ ArrayQueueOrderBook_can_match(aq, s)

\* C7: on the HashMap and PriorityQueue backends get_best_prices of a known
\* symbol is exact: Some(highest resting Buy price) / Some(lowest resting Sell
\* price), and None exactly for a side on which nothing rests.
C7_BestPricesExact ==
    \A s \in BookSymbols :
        /\ HashMapOrderBook_get_best_prices(hm, s)
               = Some(<<ExactBestBid(HmBids(s)), ExactBestAsk(HmAsks(s))>>)
        /\ PriorityQueueOrderBook_get_best_prices(pq, s)
               = Some(<<ExactBestBid(PqBids(s)), ExactBestAsk(PqAsks(s))>>)

\* Bids rest at two prices next to an ask, in both books.
C7_Witness ==
    \E s \in BookSymbols :
        /\ Cardinality(PricesOf(HmBids(s))) = 2 /\ HmAsks(s) /= {}
        /\ Cardinality(PricesOf(PqBids(s))) = 2 /\ PqAsks(s) /= {}

\* C8: on every backend get_best_prices(symbol) is None iff the symbol is not
\* in the book's symbol set, and for a known symbol the component of a side on
\* which no order rests is None.
C8_BestPricesOptions ==
    \A s \in AllSymbols :
        LET h == HashMapOrderBook_get_best_prices(hm, s)
            p == PriorityQueueOrderBook_get_best_prices(pq, s)
            a == ArrayQueueOrderBook_get_best_prices(aq, s)
        IN /\ (h = None) = (s \notin BookSymbols)
           /\ (p = None) = (s \notin BookSymbols)
           /\ (a = None) = (s \notin BookSymbols)
           /\ s \in BookSymbols =>
                  /\ HmBids(s) = {} => Unwrap(h)[1] = None
                  /\ HmAsks(s) = {} => Unwrap(h)[2] = None
                  /\ PqBids(s) = {} => Unwrap(p)[1] = None
                  /\ PqAsks(s) = {} => Unwrap(p)[2] = None
                  /\ AqBids(s) = {} => Unwrap(a)[1] = None
                  /\ AqAsks(s) = {} => Unwrap(a)[2] = None

\* A match emptied the bid ring of the ArrayQueue book while an ask rests.
C8_Witness ==
    \E s \in BookSymbols :
        /\ trades.aq[s] /= <<>>
        /\ AqBids(s) = {}
        /\ AqAsks(s) /= {}

\* The ring an order goes to, by its side.
RingOf(m, order) == IF order.order_type = "Buy" THEN m.bids ELSE m.asks
OtherRingOf(m, order) == IF order.order_type = "Buy" THEN m.asks ELSE m.bids

\* C9: ArrayQueue, checked path: when the ring of the order's side holds
\* capacity-many orders, add_order returns Ok(false) and add_order_fast false,
\* and the book (both rings, both cached extrema) is unchanged; otherwise the
\* order is appended at the tail and the call reports true.
C9_CheckedPathRefusesWhenFull ==
    [][\A order \in StepOrders :
          (order.symbol \in BookSymbols
           /\ (IsAddOrder(order) \/ IsAddOrderFast(order))) =>
              LET ring == RingOf(aq.matchers[order.symbol], order)
                  ringAfter == RingOf(aq'.matchers[order.symbol], order)
              IN IF Len(ring.items) = DEFAULT_QUEUE_SIZE
                 THEN /\ last'.ret.aq = IF last'.op = "add_order" THEN "Ok(false)"
                                       ELSE "false"
                      /\ aq' = aq
                 ELSE /\ last'.ret.aq = IF last'.op = "add_order" THEN "Ok(true)"
                                       ELSE "true"
                      /\ ringAfter.items = Append(ring.items, order)]_vars

\* add_order was refused by a full ring.
C9_Witness ==
    /\ last.op = "add_order"
    /\ last.ret.aq = "Ok(false)"
    /\ \E s \in BookSymbols :
           \/ Len(aq.matchers[s].bids.items) = DEFAULT_QUEUE_SIZE
           \/ Len(aq.matchers[s].asks.items) = DEFAULT_QUEUE_SIZE

\* C10: ArrayQueue, unchecked path: add_order_unchecked on a full ring removes
\* exactly the oldest order of that side, appends the new one at the tail and
\* leaves the ring at capacity; the other side's ring is unchanged, and no
\* ring ever holds more than capacity orders.
C10_UncheckedPathEvictsOldest ==
    [][/\ \A order \in StepOrders :
              (IsAddOrderUnchecked(order)
               /\ Len(RingOf(aq.matchers[order.symbol], order).items) = DEFAULT_QUEUE_SIZE) =>
                  LET ring == RingOf(aq.matchers[order.symbol], order)
                      ringAfter == RingOf(aq'.matchers[order.symbol], order)
                  IN /\ ringAfter.items = Append(Tail(ring.items), order)
                     /\ Len(ringAfter.items) = DEFAULT_QUEUE_SIZE
                     /\ evicted'[order.symbol]
                            = Append(evicted[order.symbol], Head(ring.items))
                     /\ OtherRingOf(aq'.matchers[order.symbol], order)
                            = OtherRingOf(aq.matchers[order.symbol], order)
       /\ \A s \in BookSymbols :
              /\ Len(aq'.matchers[s].bids.items) <= DEFAULT_QUEUE_SIZE
              /\ Len(aq'.matchers[s].asks.items) <= DEFAULT_QUEUE_SIZE]_vars

\* add_order_unchecked displaced the oldest order of a full ring.
C10_Witness ==
    /\ last.op = "add_order_unchecked"
    /\ \E s \in BookSymbols :
           /\ evicted[s] /= <<>>
           /\ \/ Len(aq.matchers[s].bids.items) = DEFAULT_QUEUE_SIZE
              \/ Len(aq.matchers[s].asks.items) = DEFAULT_QUEUE_SIZE

\* ------------------------------------------- ArrayQueue matching, per call

Drop(seq, n) == SubSeq(seq, n + 1, Len(seq))

\* The step is a match_orders call (the call records its name in `last`).
IsMatchOrders == last'.op = "match_orders"

\* The pairs the ArrayQueue book matched on symbol s in this step.
AqMatchedNow(s) == Len(trades'.aq[s]) - Len(trades.aq[s])

\* The rings of symbol s once the pairs matched in this step have left their
\* fronts: what the call holds when it inspects the next front pair.
AqBidsLeft(s) == Drop(aq.matchers[s].bids.items, AqMatchedNow(s))
AqAsksLeft(s) == Drop(aq.matchers[s].asks.items, AqMatchedNow(s))

\* The cached extrema of symbol s cross (they do not change inside the loop).
AqCachedCross(s) ==
    /\ IsSome(aq.matchers[s].best_bid)
    /\ IsSome(aq.matchers[s].best_ask)
    /\ Unwrap(aq.matchers[s].best_bid) >= Unwrap(aq.matchers[s].best_ask)

\* The call popped a front bid and a front ask of symbol s that do not cross:
\* an attempt was left, the cached extrema let it pop, and the fronts it
\* popped had bid.price < ask.price.
AqPoppedNonCrossing(s) ==
    /\ IsMatchOrders
    /\ AqMatchedNow(s) < max_matches
    /\ AqCachedCross(s)
    /\ AqBidsLeft(s) /= <<>>
    /\ AqAsksLeft(s) /= <<>>
    /\ Head(AqBidsLeft(s)).price < Head(AqAsksLeft(s)).price

\* C11: ArrayQueue: when match_orders pops a front bid and a front ask that do
\* not cross, pushing them back leaves each ring with the same orders in the
\* same FIFO order as right before the two pops.
C11_PushBackUndoesPops ==
    [][\A s \in BookSymbols :
          AqPoppedNonCrossing(s) =>
              /\ aq'.matchers[s].bids.items = AqBidsLeft(s)
              /\ aq'.matchers[s].asks.items = AqAsksLeft(s)]_vars

\* The step pushed a new order onto the bid / ask ring of symbol s: the ring's
\* tail is an order that carries the identifier the step took.
AqPushedBid(s) ==
    LET items == aq'.matchers[s].bids.items
    IN /\ items /= <<>>
       /\ items[Len(items)].id \in usedIds' \ usedIds
AqPushedAsk(s) ==
    LET items == aq'.matchers[s].asks.items
    IN /\ items /= <<>>
       /\ items[Len(items)].id \in usedIds' \ usedIds

\* C12: ArrayQueue: a match_orders call that matched at least one pair leaves
\* both cached extrema unknown, so get_best_prices is Some((None, None)) and
\* can_match is false, whatever rests in the rings; an unknown extremum
\* becomes known again only by a push on its side.
C12_ExtremaUnknownAfterMatch ==
    [][\A s \in BookSymbols :
          /\ (IsMatchOrders /\ AqMatchedNow(s) > 0) =>
                 /\ ArrayQueueOrderBook_get_best_prices(aq', s) = Some(<<None, None>>)
                 /\ ~ArrayQueueOrderBook_can_match(aq', s)
          /\ (~IsSome(aq.matchers[s].best_bid) /\ ~AqPushedBid(s)) =>
                 /\ ~IsSome(aq'.matchers[s].best_bid)
                 /\ ~ArrayQueueOrderBook_can_match(aq', s)
          /\ (~IsSome(aq.matchers[s].best_ask) /\ ~AqPushedAsk(s)) =>
                 /\ ~IsSome(aq'.matchers[s].best_ask)
                 /\ ~ArrayQueueOrderBook_can_match(aq', s)]_vars

\* A match_orders call has matched and left a crossing pair in the rings,
\* which the book does not report.
C12_Witness ==
    \E s \in BookSymbols :
        /\ last.op = "match_orders"
        /\ trades.aq[s] /= <<>>
        /\ \E b \in AqBids(s), a \in AqAsks(s) : b.price >= a.price
        /\ ArrayQueueOrderBook_get_best_prices(aq, s) = Some(<<None, None>>)
        /\ ~ArrayQueueOrderBook_can_match(aq, s)

\* The orders resting in the rings of symbol s, before and after the step.
AqRestingBefore(s) ==
    Range(aq.matchers[s].bids.items) \cup Range(aq.matchers[s].asks.items)
AqRestingAfter(s) ==
    Range(aq'.matchers[s].bids.items) \cup Range(aq'.matchers[s].asks.items)

\* C13: ArrayQueue: one match_orders call matches only orders that are at
\* the front of their ring when it inspects them: the i-th pair it matches
\* is the i-th bid with the i-th ask of the rings, it matches nothing at or
\* behind a front pair that does not cross, and every order behind stays.
C13_FrontOnlyMatching ==
    [][\A s \in BookSymbols :
          IsMatchOrders =>
              LET bids == aq.matchers[s].bids.items
                  asks == aq.matchers[s].asks.items
                  n == AqMatchedNow(s)
              IN /\ n <= Len(bids) /\ n <= Len(asks)
                 /\ \A i \in 1..n :
                        trades'.aq[s][Len(trades.aq[s]) + i] = <<bids[i], asks[i]>>
                 /\ \A k \in 1..Len(bids) :
                        (k <= Len(asks) /\ bids[k].price < asks[k].price) => n < k
                 /\ AqRestingAfter(s) =
                        Range(Drop(bids, n)) \cup Range(Drop(asks, n))]_vars

\* A match_orders call found front orders that do not cross and matched
\* nothing, while a crossing pair rests in the rings.
C13_Witness ==
    \E s \in BookSymbols :
        /\ last.op = "match_orders"
        /\ AqCachedCross(s)
        /\ aq.matchers[s].bids.items /= <<>>
        /\ aq.matchers[s].asks.items /= <<>>
        /\ \E b \in AqBids(s), a \in AqAsks(s) : b.price >= a.price

\* The first n front pairs of symbol s all cross.
AqFrontPairsCross(s, n) ==
    /\ n <= Len(aq.matchers[s].bids.items)
    /\ n <= Len(aq.matchers[s].asks.items)
    /\ \A i \in 1..n : aq.matchers[s].bids.items[i].price
                            >= aq.matchers[s].asks.items[i].price

\* C14: ArrayQueue: one match_orders call removes at most max_matches bids
\* and at most max_matches asks of a symbol, so rings that hold more than
\* max_matches crossing front pairs are not drained by one call.
C14_MatchesBoundedPerCall ==
    [][\A s \in BookSymbols :
          IsMatchOrders =>
              /\ AqMatchedNow(s) <= max_matches
              /\ Len(aq.matchers[s].bids.items)
                     - Len(aq'.matchers[s].bids.items) <= max_matches
              /\ Len(aq.matchers[s].asks.items)
                     - Len(aq'.matchers[s].asks.items) <= max_matches
              /\ (AqCachedCross(s) /\ AqFrontPairsCross(s, max_matches + 1)) =>
                     /\ AqMatchedNow(s) = max_matches
                     /\ aq'.matchers[s].bids.items /= <<>>
                     /\ aq'.matchers[s].asks.items /= <<>>]_vars

\* A match_orders call used all its attempts and left a crossing front pair.
C14_Witness ==
    \E s \in BookSymbols :
        /\ last.op = "match_orders"
        /\ Len(trades.aq[s]) = max_matches
        /\ ~IsSome(aq.matchers[s].best_bid)
        /\ aq.matchers[s].bids.items /= <<>>
        /\ aq.matchers[s].asks.items /= <<>>
        /\ Head(aq.matchers[s].bids.items).price
               >= Head(aq.matchers[s].asks.items).price

\* The price of the order at the tail of a ring, and the prices a cached
\* extremum holds (none or one).
TailPrice(items) == items[Len(items)].price
Known(opt) == {opt[i] : i \in 1..Len(opt)}

\* C15: ArrayQueue: the cached best_bid is None while no Buy order was pushed
\* since construction or the last reset, and otherwise the maximum price of
\* the Buy orders pushed (checked or unchecked path) since then; best_ask is
\* the minimum of the Sell prices pushed since then.  Step by step: the
\* extrema start unknown, a match_orders call that matched resets both, a
\* push folds its price into its side's extremum, and nothing else changes
\* them.
C15_ExtremaTrackPushes ==
    [][\A s \in BookSymbols :
          LET m == aq.matchers[s]
              after == aq'.matchers[s]
              reset == IsMatchOrders /\ AqMatchedNow(s) > 0
          IN /\ usedIds = {} => (m.best_bid = None /\ m.best_ask = None)
             /\ after.best_bid =
                    IF reset THEN None
                    ELSE IF AqPushedBid(s)
                         THEN Some(MaxOf(Known(m.best_bid)
                                         \cup {TailPrice(after.bids.items)}))
                         ELSE m.best_bid
             /\ after.best_ask =
                    IF reset THEN None
                    ELSE IF AqPushedAsk(s)
                         THEN Some(MinOf(Known(m.best_ask)
                                         \cup {TailPrice(after.asks.items)}))
                         ELSE m.best_ask]_vars

\* The cached best bid is a price no resting Buy order has: it is the price
\* of a pushed order that has since been displaced.
C15_Witness ==
    \E s \in BookSymbols :
        /\ IsSome(aq.matchers[s].best_bid)
        /\ AqBids(s) /= {}
        /\ Unwrap(aq.matchers[s].best_bid) \notin PricesOf(AqBids(s))

\* ---------------------------------------------------------------- router

\* The step is the call route_order(order).
IsRouteOrder(order) == rlast'.op = "route_order" /\ RouteOrder(order)

\* The book the router keeps for symbol s, and the orders resting in it (the
\* books of the three kinds keep them in different collections).
RouterBook(r, s) == r.direct_order_books[s]
RouterResting(r, s) ==
    LET m == RouterBook(r, s).matchers[s]
    IN CASE r.order_book_type = "HashMap" ->
                UNION {Range(m.bid_levels[p].orders) : p \in DOMAIN m.bid_levels}
                \cup UNION {Range(m.ask_levels[p].orders) : p \in DOMAIN m.ask_levels}
         [] r.order_book_type = "PriorityQueue" -> m.bids \cup m.asks
         [] r.order_book_type = "ArrayQueue" ->
                Range(m.bids.items) \cup Range(m.asks.items)
RouterBestPrices(r, s) == Dyn_get_best_prices(r.order_book_type, RouterBook(r, s), s)

\* C16: route_order with an order whose symbol is outside the set given to
\* new_direct returns Err and leaves every per-symbol book unchanged (resting
\* orders and best prices of all symbols); the order is stored nowhere.
C16_RouteUnknownSymbolRejected ==
    [][\A order \in StepOrders :
          (order.symbol \notin BookSymbols /\ IsRouteOrder(order)) =>
              /\ rlast'.ret = "Err(Invalid symbol)"
              /\ router' = router
              /\ DOMAIN router'.direct_order_books = BookSymbols
              /\ \A s \in BookSymbols :
                     /\ RouterResting(router', s) = RouterResting(router, s)
                     /\ RouterBestPrices(router', s) = RouterBestPrices(router, s)
                     /\ order \notin RouterResting(router', s)]_vars

\* An order for an unknown symbol was refused while orders rest in the books.
C16_Witness ==
    /\ rlast.op = "route_order"
    /\ rlast.ret = "Err(Invalid symbol)"
    /\ \E s \in BookSymbols : RouterResting(router, s) /= {}

\* C17: router symbol isolation: route_order(order) changes only the book of
\* order.symbol; match_all_orders runs one match_orders pass on every book,
\* and each symbol's book afterwards is the result of that pass on its own
\* prior state, whatever the order in which the books are visited.
C17_SymbolIsolation ==
    [][/\ rlast'.op = "route_order" =>
              \A s \in BookSymbols :
                  RouterBook(router', s) /= RouterBook(router, s) =>
                      \A order \in StepOrders :
                          order.symbol /= s => ~RouteOrder(order)
       /\ rlast'.op = "match_all_orders" =>
              \A s \in BookSymbols :
                  LET alone == Dyn_match_orders(router.order_book_type,
                                                RouterBook(router, s))
                  IN /\ RouterBook(router', s) = alone.book
                     /\ rtrades'[s] = rtrades[s] \o alone.pairs[s]]_vars

\* Crossing orders were routed to two symbols and match_all_orders matched
\* a pair on each.
C17_Witness ==
    /\ rlast.op = "match_all_orders"
    /\ \A s \in BookSymbols : Len(rtrades[s]) = 1
    /\ \A s \in BookSymbols : RouterResting(router, s) = {}

\* C18: router sharding: after new_direct(symbols, kind) and any route_order
\* and match_all_orders calls the router's key set is symbols, each key maps
\* to one book of the router's kind whose own symbol set is the singleton of
\* that key, supports_symbol(s) holds iff s is in symbols, and get_symbols
\* returns exactly symbols.
C18_RouterSharding ==
    /\ DOMAIN router.direct_order_books = BookSymbols
    /\ OrderRouter_get_symbols(router) = BookSymbols
    /\ \A s \in AllSymbols :
           OrderRouter_supports_symbol(router, s) <=> s \in BookSymbols
    /\ \A s \in BookSymbols :
           /\ Dyn_get_symbols(router.order_book_type, RouterBook(router, s)) = {s}
           /\ DOMAIN RouterBook(router, s).matchers = {s}
           /\ DOMAIN RouterBook(router, s).matchers[s] =
                  DOMAIN create_order_book(router.order_book_type, {s}).matchers[s]

\* Orders were routed and matched, and orders rest in the book of every key.
C18_Witness ==
    /\ rlast.op = "match_all_orders"
    /\ \E s \in BookSymbols : rtrades[s] /= <<>>
    /\ \A s \in BookSymbols : RouterResting(router, s) /= {}

\* ----------------------------------------------------------------- batches

\* A book of the given kind after add_order_fast was called on it with the
\* first n orders one after the other, and what the n-th call returned.
RECURSIVE BookAfterFast(_, _, _, _)
BookAfterFast(kind, book, orders, n) ==
    IF n = 0 THEN book
    ELSE Dyn_add_order_fast(kind, BookAfterFast(kind, book, orders, n - 1),
                            orders[n]).book
FastReturned(kind, book, orders, n) ==
    Dyn_add_order_fast(kind, BookAfterFast(kind, book, orders, n - 1), orders[n]).ret

\* The batch call took `book` to `after` and returned `ret` as the single
\* calls in sequence would have.
BatchAsSingleCalls(kind, book, after, ret, orders) ==
    /\ after = BookAfterFast(kind, book, orders, Len(orders))
    /\ ret[1] = Cardinality({n \in 1..Len(orders) : FastReturned(kind, book, orders, n)})
    /\ ret[2] = Cardinality({n \in 1..Len(orders) : ~FastReturned(kind, book, orders, n)})
    /\ ret[1] + ret[2] = Len(orders)

\* C19: on every backend add_orders_batch_fast(orders) leaves the book as
\* calling add_order_fast on each order in sequence does, and returns (s, f)
\* with s the number of those calls that returned true, f the number that
\* returned false, and s + f = len(orders): a failing order neither undoes
\* earlier successes nor keeps later orders out.
C19_BatchIsSequenceOfFastAdds ==
    [][last'.op = "add_orders_batch_fast" =>
          LET orders == last'.orders
          IN /\ BatchAsSingleCalls("HashMap", hm, hm', last'.ret.hm, orders)
             /\ BatchAsSingleCalls("PriorityQueue", pq, pq', last'.ret.pq, orders)
             /\ BatchAsSingleCalls("ArrayQueue", aq, aq', last'.ret.aq, orders)]_vars

\* A batch of two orders met a full ring: the ArrayQueue book refused one
\* order and took the other, the HashMap book took both.
C19_Witness ==
    /\ last.op = "add_orders_batch_fast"
    /\ last.ret.aq = <<1, 1>>
    /\ last.ret.hm = <<2, 0>>
    /\ \E s \in BookSymbols :
           \/ Len(aq.matchers[s].bids.items) = DEFAULT_QUEUE_SIZE
           \/ Len(aq.matchers[s].asks.items) = DEFAULT_QUEUE_SIZE

\* -------------------------------------------------- fast and checked paths

\* The orders the caller may submit next.
NextOrders == OrdersWithId(Cardinality(usedIds) + 1)

\* The ring an order would go to is full.
AqRingFull(order) ==
    /\ order.symbol \in BookSymbols
    /\ Len(RingOf(aq.matchers[order.symbol], order).items) = DEFAULT_QUEUE_SIZE

\* C20: on every backend and from every state add_order_fast(order) has the
\* same effect on the book as add_order(order) and returns true iff add_order
\* returns Ok(true); it returns false for an invalid symbol and for a full
\* ArrayQueue ring, and on the HashMap and PriorityQueue backends only for an
\* invalid symbol.
C20_FastPathAgreesWithCheckedPath ==
    \A order \in NextOrders :
        LET hf == HashMapOrderBook_add_order_fast(hm, order)
            hc == HashMapOrderBook_add_order(hm, order)
            pf == PriorityQueueOrderBook_add_order_fast(pq, order)
            pc == PriorityQueueOrderBook_add_order(pq, order)
            af == ArrayQueueOrderBook_add_order_fast(aq, order)
            ac == ArrayQueueOrderBook_add_order(aq, order)
        IN /\ hf.book = hc.book /\ (hf.ret <=> hc.ret = "Ok(true)")
           /\ pf.book = pc.book /\ (pf.ret <=> pc.ret = "Ok(true)")
           /\ af.book = ac.book /\ (af.ret <=> ac.ret = "Ok(true)")
           /\ ~hf.ret <=> order.symbol \notin BookSymbols
           /\ ~pf.ret <=> order.symbol \notin BookSymbols
           /\ ~af.ret <=> (order.symbol \notin BookSymbols \/ AqRingFull(order))

\* Orders rest in the books, a ring is full, and the fast path would refuse
\* the next order on the ArrayQueue book alone.
C20_Witness ==
    \E order \in NextOrders :
        /\ AqRingFull(order)
        /\ ~ArrayQueueOrderBook_add_order_fast(aq, order).ret
        /\ HashMapOrderBook_add_order_fast(hm, order).ret
        /\ last.op = "add_orders_batch_fast"

\* ------------------------------------------------ whole orders, fixed sides

\* The collection of one side (t = "Buy" or "Sell") of symbol s in a book value.
HmSide(book, s, t) ==
    LET levels == IF t = "Buy" THEN book.matchers[s].bid_levels
                  ELSE book.matchers[s].ask_levels
    IN UNION {Range(levels[p].orders) : p \in DOMAIN levels}
PqSide(book, s, t) ==
    IF t = "Buy" THEN book.matchers[s].bids ELSE book.matchers[s].asks
AqSide(book, s, t) ==
    IF t = "Buy" THEN Range(book.matchers[s].bids.items)
    ELSE Range(book.matchers[s].asks.items)

\* The pairs a step added to a log of consumed pairs.
NewPairs(before, after) == Drop(after, Len(before))

\* One step that touched one symbol of one book, given its bids and asks
\* before (B, A) and after (B2, A2), the pairs it consumed (new) and all the
\* pairs consumed so far (log): every pair is a bid and an ask that rested, as
\* they rested; a match pass removes them and nothing else; whatever rests
\* afterwards rested before, unchanged, or is the order the step added; and
\* nothing that rests carries the identifier of a consumed order.
WholeOrdersOnly(B, A, B2, A2, new, log) ==
    LET bids == TradedBids(new)
        asks == TradedAsks(new)
    IN /\ bids \subseteq B
       /\ asks \subseteq A
       /\ Cardinality(bids) = Len(new)
       /\ Cardinality(asks) = Len(new)
       /\ IsMatchOrders =>
              /\ B2 = B \ bids
              /\ A2 = A \ asks
              /\ Cardinality(B) - Cardinality(B2) = Len(new)
              /\ Cardinality(A) - Cardinality(A2) = Len(new)
       /\ \A o2 \in B2 \cup A2 :
              /\ o2 \in B \cup A
                     \/ (o2.id \in usedIds' \ usedIds
                         /\ o2.quantity = QuantityOf(o2.id))
              /\ \A o \in B \cup A :
                     o.id = o2.id => (o.quantity = o2.quantity /\ o.price = o2.price)
              /\ \A i \in 1..Len(log) : o2.id /= log[i][1].id /\ o2.id /= log[i][2].id

\* C21: no partial fills: on every backend each match event removes exactly
\* one whole Buy order and one whole Sell order whatever their quantities, no
\* remainder is put back, and no operation changes the quantity or the price
\* of an order that stays resting.  (A step that leaves the matcher of a
\* symbol and its log as they were leaves nothing to show for that symbol.)
C21_NoPartialFills ==
    [][\A s \in BookSymbols :
          /\ (hm'.matchers[s] /= hm.matchers[s] \/ trades'.hm[s] /= trades.hm[s]) =>
                 WholeOrdersOnly(HmSide(hm, s, "Buy"), HmSide(hm, s, "Sell"),
                                 HmSide(hm', s, "Buy"), HmSide(hm', s, "Sell"),
                                 NewPairs(trades.hm[s], trades'.hm[s]), trades'.hm[s])
          /\ (pq'.matchers[s] /= pq.matchers[s] \/ trades'.pq[s] /= trades.pq[s]) =>
                 WholeOrdersOnly(PqSide(pq, s, "Buy"), PqSide(pq, s, "Sell"),
                                 PqSide(pq', s, "Buy"), PqSide(pq', s, "Sell"),
                                 NewPairs(trades.pq[s], trades'.pq[s]), trades'.pq[s])
          /\ (aq'.matchers[s] /= aq.matchers[s] \/ trades'.aq[s] /= trades.aq[s]) =>
                 WholeOrdersOnly(AqSide(aq, s, "Buy"), AqSide(aq, s, "Sell"),
                                 AqSide(aq', s, "Buy"), AqSide(aq', s, "Sell"),
                                 NewPairs(trades.aq[s], trades'.aq[s]), trades'.aq[s])]_vars

\* Every book has matched a bid with an ask of a different quantity, and
\* orders still rest in it.
C21_Witness ==
    /\ last.op = "match_orders"
    /\ \A b \in Backends : \E s \in BookSymbols : \E i \in 1..Len(trades[b][s]) :
           trades[b][s][i][1].quantity /= trades[b][s][i][2].quantity
    /\ \E s \in BookSymbols :
           /\ HmSide(hm, s, "Buy") \cup HmSide(hm, s, "Sell") /= {}
           /\ PqSide(pq, s, "Buy") \cup PqSide(pq, s, "Sell") /= {}
           /\ AqSide(aq, s, "Buy") \cup AqSide(aq, s, "Sell") /= {}

\* The places of a book that hold an order: symbol, side and position.
HmSlots ==
    UNION {UNION {{<<s, "Buy", p, i>> :
                       i \in 1..Len(hm.matchers[s].bid_levels[p].orders)} :
                  p \in DOMAIN hm.matchers[s].bid_levels}
           \cup
           UNION {{<<s, "Sell", p, i>> :
                       i \in 1..Len(hm.matchers[s].ask_levels[p].orders)} :
                  p \in DOMAIN hm.matchers[s].ask_levels} :
           s \in DOMAIN hm.matchers}
HmAt(x) ==
    IF x[2] = "Buy" THEN hm.matchers[x[1]].bid_levels[x[3]].orders[x[4]]
    ELSE hm.matchers[x[1]].ask_levels[x[3]].orders[x[4]]

PqSlots ==
    UNION {{<<s, "Buy", o>> : o \in pq.matchers[s].bids}
           \cup {<<s, "Sell", o>> : o \in pq.matchers[s].asks} :
           s \in DOMAIN pq.matchers}

AqSlots ==
    UNION {{<<s, "Buy", i>> : i \in 1..Len(aq.matchers[s].bids.items)}
           \cup {<<s, "Sell", i>> : i \in 1..Len(aq.matchers[s].asks.items)} :
           s \in DOMAIN aq.matchers}
AqAt(x) ==
    IF x[2] = "Buy" THEN aq.matchers[x[1]].bids.items[x[3]]
    ELSE aq.matchers[x[1]].asks.items[x[3]]

\* The identifiers of the orders a book consumed by matching.
ConsumedIds(b) ==
    UNION {{x.id : x \in TradedBids(trades[b][s]) \cup TradedAsks(trades[b][s])} :
               s \in BookSymbols}

\* C22: side partition: in every reachable state of every backend each resting
\* order is held in exactly one place of the matcher of its symbol, a Buy only
\* in the bid collection and a Sell only in the ask collection, and an order
\* consumed by a match is held nowhere.
C22_SidePartition ==
    /\ \A x \in HmSlots :
           /\ HmAt(x).symbol = x[1]
           /\ HmAt(x).order_type = x[2]
           /\ HmAt(x).price = x[3]
           /\ HmAt(x).id \notin ConsumedIds("hm")
           /\ \A y \in HmSlots : HmAt(y).id = HmAt(x).id => y = x
    /\ \A x \in PqSlots :
           /\ x[3].symbol = x[1]
           /\ x[3].order_type = x[2]
           /\ x[3].id \notin ConsumedIds("pq")
           /\ \A y \in PqSlots : y[3].id = x[3].id => y = x
    /\ \A x \in AqSlots :
           /\ AqAt(x).symbol = x[1]
           /\ AqAt(x).order_type = x[2]
           /\ AqAt(x).id \notin ConsumedIds("aq")
           /\ \A y \in AqSlots : AqAt(y).id = AqAt(x).id => y = x

\* Every book has consumed a pair, and a Sell then came to rest in each of them.
C22_Witness ==
    /\ last.op /= "match_orders"
    /\ \E s \in BookSymbols :
           /\ \A b \in Backends : trades[b][s] /= <<>>
           /\ HmAsks(s) /= {} /\ HmBids(s) = {}
           /\ PqAsks(s) /= {} /\ PqBids(s) = {}
           /\ AqAsks(s) /= {} /\ AqBids(s) = {}

\* In the HashMap book exactly one Buy and one Sell of symbol s rest, and they
\* cross.
HmSingleCrossingPair(s) ==
    /\ Cardinality(HmBids(s)) = 1
    /\ Cardinality(HmAsks(s)) = 1
    /\ \A b \in HmBids(s), a \in HmAsks(s) : b.price >= a.price

\* C23: HashMap: when a single Buy and a single Sell of one symbol rest at
\* crossing prices, can_match(symbol) is true, and one match_orders call
\* consumes the two as a pair: both are gone and get_best_prices(symbol) is
\* Some((None, None)).
C23_SinglePairScenario ==
    [][\A s \in BookSymbols :
          HmSingleCrossingPair(s) =>
              /\ HashMapOrderBook_can_match(hm, s)
              /\ IsMatchOrders =>
                     /\ \A b \in HmBids(s), a \in HmAsks(s) :
                            NewPairs(trades.hm[s], trades'.hm[s]) = <<<<b, a>>>>
                     /\ HmSide(hm', s, "Buy") = {}
                     /\ HmSide(hm', s, "Sell") = {}
                     /\ ~HashMapOrderBook_can_match(hm', s)
                     /\ HashMapOrderBook_get_best_prices(hm', s)
                            = Some(<<None, None>>)]_vars

\* Two orders were added, a Buy and a Sell of one symbol at the same price, and
\* match_orders consumed them: the HashMap book reports no best price.
C23_Witness ==
    \E s \in BookSymbols :
        /\ last.op = "match_orders"
        /\ Cardinality(usedIds) = 2
        /\ Len(trades.hm[s]) = 1
        /\ trades.hm[s][1][1].price = trades.hm[s][1][2].price
        /\ HashMapOrderBook_get_best_prices(hm, s) = Some(<<None, None>>)

\* C24: on every backend the symbol set is fixed at construction: after any
\* sequence of add, batch and match calls (queries change nothing: they take
\* the book by shared reference) get_symbols() is the set passed to new, and
\* is_valid_symbol(s) is true iff s is in that set; the PriorityQueue book
\* answers from the keys of its matcher map, which stay that set too.
C24_SymbolSetFixed ==
    /\ HashMapOrderBook_get_symbols(hm) = BookSymbols
    /\ PriorityQueueOrderBook_get_symbols(pq) = BookSymbols
    /\ ArrayQueueOrderBook_get_symbols(aq) = BookSymbols
    /\ DOMAIN hm.matchers = BookSymbols
    /\ DOMAIN pq.matchers = BookSymbols
    /\ DOMAIN aq.matchers = BookSymbols
    /\ \A s \in AllSymbols :
           /\ HashMapOrderBook_is_valid_symbol(hm, s) = (s \in BookSymbols)
           /\ PriorityQueueOrderBook_is_valid_symbol(pq, s) = (s \in BookSymbols)
           /\ ArrayQueueOrderBook_is_valid_symbol(aq, s) = (s \in BookSymbols)

\* After a match that consumed a pair, a batch with an order of an unknown
\* symbol was submitted and that order was refused by every book.
C24_Witness ==
    /\ last.op = "add_orders_batch_fast"
    /\ last.ret.hm[2] > 0 /\ last.ret.pq[2] > 0 /\ last.ret.aq[2] > 0
    /\ \E s \in BookSymbols : \A b \in Backends : trades[b][s] /= <<>>

\* --------------------------------------------------- which order goes first

\* The bids / asks of the first n pairs of a sequence of pairs.
BidsUpTo(pairs, n) == {pairs[j][1] : j \in 1..n}
AsksUpTo(pairs, n) == {pairs[j][2] : j \in 1..n}

\* Among `resting`, b has the highest price and, at that price, the lowest
\* identifier / a has the lowest price and, at that price, the lowest
\* identifier.
FirstBidByIdentifier(b, resting) ==
    /\ b \in resting
    /\ \A x \in resting : x.price < b.price \/ (x.price = b.price /\ x.id >= b.id)
FirstAskByIdentifier(a, resting) ==
    /\ a \in resting
    /\ \A x \in resting : x.price > a.price \/ (x.price = a.price /\ x.id >= a.id)

\* C25: PriorityQueue: every bid a match removes is, among the bids resting
\* when it is removed, one of maximum price and of the lowest identifier at
\* that price; every ask removed is one of minimum price and of the lowest
\* identifier at that price; this holds whatever the order of insertion, and
\* the best bid (ask) reported is the highest (lowest) resting price.
C25_PriorityQueueOrdering ==
    [][\A s \in BookSymbols :
          /\ PriorityQueueOrderBook_get_best_prices(pq, s)
                 = Some(<<ExactBestBid(PqBids(s)), ExactBestAsk(PqAsks(s))>>)
          /\ IsMatchOrders =>
                 LET new == NewPairs(trades.pq[s], trades'.pq[s])
                 IN \A i \in 1..Len(new) :
                        /\ FirstBidByIdentifier(new[i][1],
                                                PqBids(s) \ BidsUpTo(new, i - 1))
                        /\ FirstAskByIdentifier(new[i][2],
                                                PqAsks(s) \ AsksUpTo(new, i - 1))]_vars

\* Identifiers were not taken in arrival order; the PriorityQueue book matched
\* an ask while an ask of the same price and a higher identifier stays
\* resting, which had arrived first (the HashMap book, FIFO, matched that one).
C25_Witness ==
    \E s \in BookSymbols :
        /\ ~inOrder
        /\ last.op = "match_orders"
        /\ \E i \in 1..Len(trades.pq[s]) : \E o \in PqAsks(s) :
               /\ o.price = trades.pq[s][i][2].price
               /\ o.id > trades.pq[s][i][2].id
               /\ \E j \in 1..Len(trades.hm[s]) : trades.hm[s][j][2] = o

\* The FIFO of the level at price p of a level map (empty if there is no such
\* level), and what is left of it once the orders in `gone` have left.
LevelFifo(levels, p) == IF p \in DOMAIN levels THEN levels[p].orders ELSE <<>>
FifoWithout(fifo, gone) == SelectSeq(fifo, LAMBDA o : o \notin gone)

\* Of the orders of `levels` outside `gone`, o is the earliest added at the
\* best price (best = "max" for bids, "min" for asks).
FirstByArrival(o, levels, gone, best) ==
    LET rest == UNION {Range(FifoWithout(levels[p].orders, gone)) : p \in DOMAIN levels}
        top == IF best = "max" THEN MaxOf(PricesOf(rest)) ELSE MinOf(PricesOf(rest))
    IN /\ rest /= {}
       /\ o = Head(FifoWithout(LevelFifo(levels, top), gone))

\* A call that adds keeps each FIFO in arrival order: it is as before, or as
\* before with the order just added behind.
FifoGrowsAtBack(before, after) ==
    \A p \in Prices :
        \/ LevelFifo(after, p) = LevelFifo(before, p)
        \/ /\ Len(LevelFifo(after, p)) = Len(LevelFifo(before, p)) + 1
           /\ SubSeq(LevelFifo(after, p), 1, Len(LevelFifo(before, p)))
                  = LevelFifo(before, p)
           /\ LevelFifo(after, p)[Len(LevelFifo(after, p))].id \in usedIds' \ usedIds

\* C26: HashMap: every bid a match removes is the earliest-added of the bids
\* resting at the highest bid price when it is removed, and every ask the
\* earliest-added at the lowest ask price; so no order is matched while a
\* strictly better-priced order rests on its side, and orders of one side at
\* one price are matched in arrival order, whatever their identifiers.
C26_HashMapOrdering ==
    [][\A s \in BookSymbols :
          LET bids == hm.matchers[s].bid_levels
              asks == hm.matchers[s].ask_levels
              new == NewPairs(trades.hm[s], trades'.hm[s])
          IN /\ ~IsMatchOrders =>
                    /\ FifoGrowsAtBack(bids, hm'.matchers[s].bid_levels)
                    /\ FifoGrowsAtBack(asks, hm'.matchers[s].ask_levels)
             /\ IsMatchOrders =>
                    \A i \in 1..Len(new) :
                        /\ FirstByArrival(new[i][1], bids, BidsUpTo(new, i - 1), "max")
                        /\ FirstByArrival(new[i][2], asks, AsksUpTo(new, i - 1), "min")
                        /\ \A x \in HmBids(s) \ BidsUpTo(new, i - 1) :
                               x.price <= new[i][1].price
                        /\ \A x \in HmAsks(s) \ AsksUpTo(new, i - 1) :
                               x.price >= new[i][2].price]_vars

\* Identifiers were not taken in arrival order; the HashMap book matched an
\* ask of a higher identifier than an ask of the same price that stays resting
\* behind it.
C26_Witness ==
    \E s \in BookSymbols :
        /\ ~inOrder
        /\ last.op = "match_orders"
        /\ \E i \in 1..Len(trades.hm[s]) : \E o \in HmAsks(s) :
               /\ o.price = trades.hm[s][i][2].price
               /\ o.id < trades.hm[s][i][2].id

\* ------------------------------------------------------ one owner per symbol

\* The calls the owner of symbol s may make next, when n orders exist and the
\* order it would create is numbered id.
OwnerCalls(s, id) ==
    {[op |-> "route_order", symbol |-> s, order |-> order] :
         order \in {o \in OwnOrders(s) : o.id = id}}
    \cup {[op |-> "match_orders", symbol |-> s]}

\* The router after a call of an owner.
AfterCall(r, call) ==
    IF call.op = "route_order"
    THEN OrderRouter_route_order(r, call.order).router
    ELSE OrderRouter_match_book(r, call.symbol).router

M_HashMapMatcher_match_iteration_peek(m) ==
    IF ~HashMapMatcher_match_cond(m)
    THEN [m |-> m, again |-> FALSE]
    ELSE LET bid_price == Unwrap(HashMapMatcher_get_best_bid(m))
             ask_price == Unwrap(HashMapMatcher_get_best_ask(m))
             b == LevelsPop(m.bid_levels, bid_price)
             a == LevelsPop(m.ask_levels, ask_price)
         IN IF IsSome(b.order) /\ IsSome(a.order)
            THEN [m |-> [bid_levels |-> m.bid_levels,
                         ask_levels |-> LevelsPrune(a.levels, ask_price)],
                  again |-> TRUE]
            ELSE [m |-> [bid_levels |-> b.levels, ask_levels |-> a.levels],
                  again |-> FALSE]

HashMapMatcher_match_iteration(m) ==
    IF ~HashMapMatcher_match_cond(m)
    THEN [m |-> m, again |-> FALSE]
    ELSE LET bid_price == Unwrap(HashMapMatcher_get_best_bid(m))
             ask_price == Unwrap(HashMapMatcher_get_best_ask(m))
             b == LevelsPop(m.bid_levels, bid_price)
             a == LevelsPop(m.ask_levels, ask_price)
         IN IF IsSome(b.order) /\ IsSome(a.order)
            THEN [m |-> [bid_levels |-> LevelsPrune(b.levels, bid_price),
                         ask_levels |-> LevelsPrune(a.levels, ask_price)],
                  again |-> TRUE]
            ELSE [m |-> [bid_levels |-> b.levels, ask_levels |-> a.levels],
                  again |-> FALSE]

PriorityQueueMatcher_match_iteration(m) ==
    IF ~PriorityQueueMatcher_can_match(m)
    THEN [m |-> m, again |-> FALSE]
    ELSE LET bid == BidHeap_pop(m.bids)
             ask == AskHeap_pop(m.asks)
         IN IF IsSome(bid.order) /\ IsSome(ask.order)
            THEN [m |-> [bids |-> bid.heap, asks |-> ask.heap,
                         best_bid |-> PeekPrice(BidHeap_peek(bid.heap)),
                         best_ask |-> PeekPrice(AskHeap_peek(ask.heap))],
                  again |-> TRUE]
            ELSE [m |-> [m EXCEPT !.bids = bid.heap, !.asks = ask.heap],
                  again |-> FALSE]

\* The body of `for _ in 0..max_matches`; `again` is the pass that counted a
\* match (matched_count += 1).
ArrayQueueMatcher_match_iteration(m) ==
    IF ~ArrayQueueMatcher_can_match_optimistic(m)
    THEN [m |-> m, again |-> FALSE]
    ELSE LET b == ArrayQueue_pop(m.bids)
             a == ArrayQueue_pop(m.asks)
         IN IF IsSome(b.order) /\ IsSome(a.order)
            THEN IF Unwrap(b.order).price >= Unwrap(a.order).price
                 THEN [m |-> [m EXCEPT !.bids = b.q, !.asks = a.q],
                       again |-> TRUE]
                 ELSE [m |-> [m EXCEPT
                                 !.bids = ArrayQueue_push(b.q, Unwrap(b.order)).q,
                                 !.asks = ArrayQueue_push(a.q, Unwrap(a.order)).q],
                       again |-> FALSE]
            ELSE [m |-> [m EXCEPT !.bids = b.q, !.asks = a.q],
                  again |-> FALSE]

match_iteration(backend, m) ==
    CASE backend = "hm" -> HashMapMatcher_match_iteration(m)
      [] backend = "pq" -> PriorityQueueMatcher_match_iteration(m)
      [] backend = "aq" -> ArrayQueueMatcher_match_iteration(m)

\* The orders resting on one side of a matcher.
Resting(backend, m, t) ==
    CASE backend = "hm" ->
             LET levels == IF t = "Buy" THEN m.bid_levels ELSE m.ask_levels
             IN UNION {Range(levels[p].orders) : p \in DOMAIN levels}
      [] backend = "pq" -> IF t = "Buy" THEN m.bids ELSE m.asks
      [] backend = "aq" -> IF t = "Buy" THEN Range(m.bids.items)
                           ELSE Range(m.asks.items)

\* The loop run for at most `fuel` passes that go round again: the matcher it
\* leaves, the number n of such passes, how it left ("break": by its own
\* condition or break; "fuel": the passes ran out), and whether every pass
\* that went round again took exactly one order from each side.
RECURSIVE MatchLoopRun(_, _, _, _, _)
MatchLoopRun(backend, m, fuel, n, onePerSide) ==
    IF fuel = 0
    THEN [m |-> m, n |-> n, exit |-> "fuel", onePerSide |-> onePerSide]
    ELSE LET it == match_iteration(backend, m)
             one == /\ Cardinality(Resting(backend, it.m, "Buy"))
                        = Cardinality(Resting(backend, m, "Buy")) - 1
                    /\ Cardinality(Resting(backend, it.m, "Sell"))
                        = Cardinality(Resting(backend, m, "Sell")) - 1
         IN IF it.again
            THEN MatchLoopRun(backend, it.m, fuel - 1, n + 1, onePerSide /\ one)
            ELSE [m |-> it.m, n |-> n, exit |-> "break",
                  onePerSide |-> onePerSide]

\* The smaller of the two sides of a matcher.
SmallerSide(backend, m) ==
    LET nb == Cardinality(Resting(backend, m, "Buy"))
        na == Cardinality(Resting(backend, m, "Sell"))
    IN IF nb <= na THEN nb ELSE na

\* C28: match_orders terminates on every backend from every reachable state.
\* On the HashMap and the PriorityQueue book the loop leaves by itself within
\* as many passes as the smaller side holds orders, each pass taking exactly
\* one order from each side, and it leaves a matcher that cannot match
\* (uncrossed, or one side empty).  On the ArrayQueue book the loop counts at
\* most max_matches passes, each taking one order from each side.  In all three
\* the matcher the passes leave is the one match_orders leaves.
C28_MatchTerminates ==
    \A s \in BookSymbols :
        /\ LET m == hm.matchers[s]
               run == MatchLoopRun("hm", m, SmallerSide("hm", m) + 1, 0, TRUE)
           IN /\ run.exit = "break"
              /\ run.n <= SmallerSide("hm", m)
              /\ run.onePerSide
              /\ ~HashMapMatcher_match_cond(run.m)
              /\ run.m = HashMapMatcher_match_orders(m).m
        /\ LET m == pq.matchers[s]
               run == MatchLoopRun("pq", m, SmallerSide("pq", m) + 1, 0, TRUE)
           IN /\ run.exit = "break"
              /\ run.n <= SmallerSide("pq", m)
              /\ run.onePerSide
              /\ ~PriorityQueueMatcher_can_match(run.m)
              /\ run.m = PriorityQueueMatcher_match_orders(m).m
        /\ LET m == aq.matchers[s]
               run == MatchLoopRun("aq", m, max_matches, 0, TRUE)
               r == ArrayQueueMatcher_match_orders(m)
           IN /\ run.n <= max_matches
              /\ run.onePerSide
              /\ Len(r.pairs) = run.n
              /\ r.m.bids = run.m.bids
              /\ r.m.asks = run.m.asks

\* A state from which the HashMap loop goes round twice and the ArrayQueue
\* loop is stopped by its cap with a match still possible.
C28_Witness ==
    \E s \in BookSymbols :
        /\ MatchLoopRun("hm", hm.matchers[s],
                        SmallerSide("hm", hm.matchers[s]) + 1, 0, TRUE).n >= 2
        /\ MatchLoopRun("pq", pq.matchers[s],
                        SmallerSide("pq", pq.matchers[s]) + 1, 0, TRUE).n >= 2
        /\ LET run == MatchLoopRun("aq", aq.matchers[s], max_matches, 0, TRUE)
           IN /\ run.exit = "fuel"
              /\ ArrayQueueMatcher_can_match_optimistic(run.m)

\* ------------------------------------------------ unchecked and checked adds

\* A book of the given kind after add_order_unchecked was called on it with
\* the first n orders one after the other.
RECURSIVE BookAfterUnchecked(_, _, _, _)
BookAfterUnchecked(kind, book, orders, n) ==
    IF n = 0 THEN book
    ELSE LET before == BookAfterUnchecked(kind, book, orders, n - 1)
         IN CASE kind = "HashMap" ->
                     HashMapOrderBook_add_order_unchecked(before, orders[n])
              [] kind = "PriorityQueue" ->
                     PriorityQueueOrderBook_add_order_unchecked(before, orders[n])
              [] kind = "ArrayQueue" ->
                     ArrayQueueOrderBook_add_order_unchecked(before, orders[n]).book

\* The batches the caller may submit next whose symbols are all valid.
ValidBatches ==
    {orders \in Batches(Cardinality(usedIds)) :
        \A i \in 1..Len(orders) : orders[i].symbol \in BookSymbols}

\* C29: for an order whose symbol is valid, add_order_unchecked leaves the
\* HashMap and the PriorityQueue book (cached best prices included) as
\* add_order leaves it, and the ArrayQueue book too whenever the ring the order
\* goes to is not full; add_orders_batch_unchecked leaves each book as
\* add_order_unchecked called on each order in sequence leaves it, and returns
\* len(orders).
C29_UncheckedAgreesWithChecked ==
    /\ \A order \in NextOrders :
           order.symbol \in BookSymbols =>
               LET pu == PriorityQueueOrderBook_add_order_unchecked(pq, order)
                   pc == PriorityQueueOrderBook_add_order(pq, order).book
               IN /\ HashMapOrderBook_add_order_unchecked(hm, order)
                         = HashMapOrderBook_add_order(hm, order).book
                  /\ pu = pc
                  /\ pu.matchers[order.symbol].best_bid
                         = pc.matchers[order.symbol].best_bid
                  /\ pu.matchers[order.symbol].best_ask
                         = pc.matchers[order.symbol].best_ask
                  /\ ~AqRingFull(order) =>
                         ArrayQueueOrderBook_add_order_unchecked(aq, order).book
                             = ArrayQueueOrderBook_add_order(aq, order).book
    /\ \A orders \in ValidBatches :
           LET h == HashMapOrderBook_add_orders_batch_unchecked(hm, orders)
               p == PriorityQueueOrderBook_add_orders_batch_unchecked(pq, orders)
               a == ArrayQueueOrderBook_add_orders_batch_unchecked(aq, orders)
               n == Len(orders)
           IN /\ h.book = BookAfterUnchecked("HashMap", hm, orders, n)
              /\ p.book = BookAfterUnchecked("PriorityQueue", pq, orders, n)
              /\ a.book = BookAfterUnchecked("ArrayQueue", aq, orders, n)
              /\ h.ret = n /\ p.ret = n /\ a.ret = n

\* After an unchecked batch of two orders the books hold resting orders, a
\* ring is full, and for the next order into that ring the unchecked add and
\* the checked add part ways on the ArrayQueue book only.
C29_Witness ==
    /\ last.op = "add_orders_batch_unchecked"
    /\ Len(last.orders) = 2
    /\ last.ret = [hm |-> 2, pq |-> 2, aq |-> 2]
    /\ \E order \in NextOrders :
           /\ AqRingFull(order)
           /\ ArrayQueueOrderBook_add_order_unchecked(aq, order).book
                  /= ArrayQueueOrderBook_add_order(aq, order).book
           /\ HashMapOrderBook_add_order_unchecked(hm, order)
                  = HashMapOrderBook_add_order(hm, order).book
    /\ \E orders \in ValidBatches : Len(orders) = 1

\* ------------------------------------------------------------- process_order

\* C30: process_order(order) is add_order_fast(order) followed at once by
\* match_orders() on the route's book; so over a HashMap or a PriorityQueue
\* book driven through process_order alone, can_match is false for every
\* symbol after every call; and an order the add rejects for its symbol rests
\* nowhere, while the match pass still runs on the book as it was.
C30_ProcessIsAddThenMatch ==
    [][last'.op = "process_order" =>
          LET order == last'.order
              ha == HashMapOrderBook_add_order_fast(hm, order)
              pa == PriorityQueueOrderBook_add_order_fast(pq, order)
              aa == ArrayQueueOrderBook_add_order_fast(aq, order)
          IN /\ hm' = HashMapOrderBook_match_orders(ha.book).book
             /\ pq' = PriorityQueueOrderBook_match_orders(pa.book).book
             /\ aq' = ArrayQueueOrderBook_match_orders(aa.book).book
             /\ last'.added = [hm |-> ha.ret, pq |-> pa.ret, aq |-> aa.ret]
             /\ \A s \in BookSymbols :
                    /\ ~HashMapOrderBook_can_match(hm', s)
                    /\ ~PriorityQueueOrderBook_can_match(pq', s)
             /\ order.symbol \notin BookSymbols =>
                    /\ ~ha.ret /\ ~pa.ret /\ ~aa.ret
                    /\ hm' = HashMapOrderBook_match_orders(hm).book
                    /\ pq' = PriorityQueueOrderBook_match_orders(pq).book
                    /\ aq' = ArrayQueueOrderBook_match_orders(aq).book
                    /\ \A s \in BookSymbols, t \in {"Buy", "Sell"} :
                           /\ order \notin HmSide(hm', s, t)
                           /\ order \notin PqSide(pq', s, t)
                           /\ order \notin AqSide(aq', s, t)]_vars

\* The last call was given an order of an invalid symbol and dropped it, the
\* HashMap and the PriorityQueue book had consumed a pair in an earlier call,
\* and the match pass of this last call consumed a pair on the ArrayQueue
\* book: its ask was the previous order, which the previous call's pass had
\* met with an older, lower bid that still rests.
C30_Witness ==
    /\ last.op = "process_order"
    /\ last.order.symbol \notin BookSymbols
    /\ last.added = [hm |-> FALSE, pq |-> FALSE, aq |-> FALSE]
    /\ \E s \in BookSymbols :
           /\ Len(trades.hm[s]) = 1
           /\ Len(trades.pq[s]) = 1
           /\ Len(trades.aq[s]) = 1
           /\ trades.aq[s][1][2].id = last.order.id - 1
           /\ \E o \in AqSide(aq, s, "Buy") :
                  /\ o.id < trades.aq[s][1][1].id
                  /\ o.price < trades.aq[s][1][2].price

\* ------------------------------------------------------- backend selection

\* The symbol sets a book is created with.
SymbolSets == SUBSET AllSymbols

\* create_order_book(kind, symbols) boxes a book that reports `kind`.
FactoryKeepsKind ==
    \A kind \in OrderBookType, symbols \in SymbolSets :
        Dyn_order_book_type(create_order_book_impl(kind),
                            create_order_book(kind, symbols)) = kind

\* C31: for each of HashMap, PriorityQueue and ArrayQueue,
\* create_order_book(kind, symbols) returns a book whose order_book_type() is
\* kind; a router constructed with a kind holds books made by the factory for
\* that kind and get_implementation_name() names that kind; and no operation
\* on the router changes the name.
C31_BackendSelection ==
    /\ \E kind \in OrderBookType :
           /\ router = OrderRouter_new_direct(BookSymbols, kind)
           /\ FactoryKeepsKind
           /\ \A s \in BookSymbols :
                  /\ router.direct_order_books[s] = create_order_book(kind, {s})
                  /\ Dyn_order_book_type(create_order_book_impl(kind),
                                         router.direct_order_books[s]) = kind
           /\ OrderRouter_get_implementation_name(router) = kind
    /\ [][OrderRouter_get_implementation_name(router')
              = OrderRouter_get_implementation_name(router)]_vars

\* A router constructed with a kind other than the default has routed orders
\* and matched a pair, and still names its kind.
C31_Witness ==
    /\ rlast.op = "match_all_orders"
    /\ OrderRouter_get_implementation_name(router) = "ArrayQueue"
    /\ Dyn_order_book_type(create_order_book_impl(router.order_book_type),
                           router.direct_order_books[MinOf(BookSymbols)])
           = "ArrayQueue"
    /\ \E s \in BookSymbols : rtrades[s] /= <<>>

\* ------------------------------------------------ PriorityQueue best prices

\* The exact heap tops of a matcher cross.
TopsCross(m) ==
    LET bid == BidHeap_peek(m.bids)
        ask == AskHeap_peek(m.asks)
    IN IsSome(bid) /\ IsSome(ask) /\ Unwrap(bid).price >= Unwrap(ask).price

\* C32: in every state of the PriorityQueue book reached by checked, fast,
\* unchecked and batch adds and match_orders calls, for every symbol the cached
\* best_bid is the price at the top of the bid heap (None iff the heap is
\* empty), the cached best_ask is the price at the top of the ask heap, and
\* can_match, which reads the cache, says what the exact heap tops say.
C32_PriorityQueueCacheCoherent ==
    \A s \in BookSymbols :
        LET m == pq.matchers[s]
        IN /\ m.best_bid = PeekPrice(BidHeap_peek(m.bids))
           /\ m.best_ask = PeekPrice(AskHeap_peek(m.asks))
           /\ (m.best_bid = None) <=> (m.bids = {})
           /\ (m.best_ask = None) <=> (m.asks = {})
           /\ PriorityQueueMatcher_get_best_prices(m) = <<m.best_bid, m.best_ask>>
           /\ PriorityQueueOrderBook_can_match(pq, s) <=> TopsCross(m)

\* A match pass has just consumed a pair of the PriorityQueue book and left a
\* bid resting with no ask: one cache is set, the other cleared.
C32_Witness ==
    /\ last.op = "match_orders"
    /\ \E s \in BookSymbols :
           /\ trades.pq[s] /= <<>>
           /\ pq.matchers[s].bids /= {}
           /\ pq.matchers[s].asks = {}
           /\ IsSome(pq.matchers[s].best_bid)
           /\ pq.matchers[s].best_ask = None

\* ------------------------------------------------------ the ledger of orders

\* The number of orders of side t in a sequence.
CountSide(seq, t) == Cardinality({i \in 1..Len(seq) : seq[i].order_type = t})

\* For one side of one symbol of one book: the orders resting, plus the pairs
\* consumed (each took one order of the side), plus the orders of the side
\* that force_push displaced.
SideLedger(resting, pairs, displaced, t) ==
    Cardinality(resting) + Len(pairs) + CountSide(displaced, t)

\* The orders of side t and symbol s that a step handed to a book and the book
\* accepted: the fast adds of the batch that returned true, every add of an
\* unchecked batch, none in a match pass.
AcceptedInStep(kind, book, call, s, t) ==
    IF call.op = "add_orders_batch_fast"
    THEN Cardinality({n \in 1..Len(call.orders) :
                         /\ call.orders[n].symbol = s
                         /\ call.orders[n].order_type = t
                         /\ FastReturned(kind, book, call.orders, n)})
    ELSE IF call.op = "add_orders_batch_unchecked"
    THEN Cardinality({n \in 1..Len(call.orders) :
                         /\ call.orders[n].symbol = s
                         /\ call.orders[n].order_type = t})
    ELSE 0

\* Every pair is one Buy order and one Sell order.
PairsAreBuySell(pairs) ==
    \A i \in 1..Len(pairs) :
        pairs[i][1].order_type = "Buy" /\ pairs[i][2].order_type = "Sell"

\* C33: matching never consumes an order from one side only.  On every
\* backend no match pass pops an order on one side alone, every consumed pair
\* is one Buy and one Sell, and step by step, for each symbol and side, the
\* orders resting plus the pairs consumed plus the orders the ArrayQueue
\* unchecked path displaced grow by exactly the orders the book accepted; so
\* per symbol accepted = resting + 2 x pairs + displaced.
C33_NoOneSidedConsumption ==
    [][/\ lost' = [b \in Backends |-> <<>>]
       /\ \A s \in BookSymbols :
              /\ PairsAreBuySell(trades'.hm[s])
              /\ PairsAreBuySell(trades'.pq[s])
              /\ PairsAreBuySell(trades'.aq[s])
              /\ \A t \in {"Buy", "Sell"} :
                     /\ SideLedger(Resting("hm", hm'.matchers[s], t),
                                   trades'.hm[s], <<>>, t)
                            = SideLedger(Resting("hm", hm.matchers[s], t),
                                         trades.hm[s], <<>>, t)
                                  + AcceptedInStep("HashMap", hm, last', s, t)
                     /\ SideLedger(Resting("pq", pq'.matchers[s], t),
                                   trades'.pq[s], <<>>, t)
                            = SideLedger(Resting("pq", pq.matchers[s], t),
                                         trades.pq[s], <<>>, t)
                                  + AcceptedInStep("PriorityQueue", pq, last', s, t)
                     /\ SideLedger(Resting("aq", aq'.matchers[s], t),
                                   trades'.aq[s], evicted'[s], t)
                            = SideLedger(Resting("aq", aq.matchers[s], t),
                                         trades.aq[s], evicted[s], t)
                                  + AcceptedInStep("ArrayQueue", aq, last', s, t)]_vars

\* On the ArrayQueue book of some symbol an order rests, a pair was consumed
\* and an order was displaced, and no book ever popped one side alone.
C33_Witness ==
    /\ lost = [b \in Backends |-> <<>>]
    /\ last.op = "match_orders"
    /\ \E s \in BookSymbols :
           /\ evicted[s] /= <<>>
           /\ trades.aq[s] /= <<>>
           /\ trades.hm[s] /= <<>>
           /\ Resting("aq", aq.matchers[s], "Buy") /= {}

\* ------------------------------------------- ArrayQueue: known means resting

\* A known cached extremum has an order in its ring.
AqKnownMeansNonEmpty ==
    \A s \in BookSymbols :
        LET m == aq.matchers[s]
        IN /\ IsSome(m.best_bid) => ~ArrayQueue_is_empty(m.bids)
           /\ IsSome(m.best_ask) => ~ArrayQueue_is_empty(m.asks)

\* A ring of symbol s that held an order holds none after the step.
AqRingEmptied(s) ==
    \/ /\ ~ArrayQueue_is_empty(aq.matchers[s].bids)
       /\ ArrayQueue_is_empty(aq'.matchers[s].bids)
    \/ /\ ~ArrayQueue_is_empty(aq.matchers[s].asks)
       /\ ArrayQueue_is_empty(aq'.matchers[s].asks)

\* C34: on the ArrayQueue book, in every reachable state a known cached
\* best_bid has a non-empty bid ring behind it and a known cached best_ask a
\* non-empty ask ring; a ring becomes empty only in a match_orders call that
\* matched a pair of its symbol, and that call clears both extrema.
C34_AqKnownExtremaHaveOrders ==
    /\ AqKnownMeansNonEmpty
    /\ [][/\ AqKnownMeansNonEmpty'
          /\ \A s \in BookSymbols :
                 AqRingEmptied(s) =>
                     /\ last'.op = "match_orders"
                     /\ Len(trades'.aq[s]) > Len(trades.aq[s])
                     /\ aq'.matchers[s].best_bid = None
                     /\ aq'.matchers[s].best_ask = None]_vars

\* A match pass has just emptied the ask ring of a symbol and left a bid in
\* the bid ring; both extrema are unknown.
C34_Witness ==
    /\ last.op = "match_orders"
    /\ \E s \in BookSymbols :
           /\ trades.aq[s] /= <<>>
           /\ ArrayQueue_is_empty(aq.matchers[s].asks)
           /\ ~ArrayQueue_is_empty(aq.matchers[s].bids)
           /\ aq.matchers[s].best_bid = None
           /\ aq.matchers[s].best_ask = None

\* ---------------------------------------- ArrayQueue: a pass with no match

\* How many times an order stands in a sequence.
CountIn(seq, o) == Cardinality({i \in 1..Len(seq) : seq[i] = o})

\* C35: on the ArrayQueue book a match_orders call that matches no pair of a
\* symbol (the cached extrema do not cross, a ring is empty, or the front pair
\* does not cross) leaves both cached extrema of the symbol as they were and
\* each of its rings with the same orders, as many as before: no order is lost
\* when the front pair that does not cross is pushed back.
C35_AqNoMatchKeepsOrders ==
    [][last'.op = "match_orders" =>
          \A s \in BookSymbols :
              trades'.aq[s] = trades.aq[s] =>
                  LET m == aq.matchers[s]
                      n == aq'.matchers[s]
                  IN /\ n.best_bid = m.best_bid
                     /\ n.best_ask = m.best_ask
                     /\ Len(n.bids.items) = Len(m.bids.items)
                     /\ Len(n.asks.items) = Len(m.asks.items)
                     /\ \A o \in Range(m.bids.items) \cup Range(n.bids.items) :
                            CountIn(n.bids.items, o) = CountIn(m.bids.items, o)
                     /\ \A o \in Range(m.asks.items) \cup Range(n.asks.items) :
                            CountIn(n.asks.items, o) = CountIn(m.asks.items, o)
                     /\ lost'.aq = lost.aq]_vars

\* A match pass has just met a front pair that does not cross behind crossing
\* extrema: no pair was consumed, the older bid now stands behind the younger
\* one, and both extrema are still known.
C35_Witness ==
    /\ last.op = "match_orders"
    /\ \E s \in BookSymbols :
           LET m == aq.matchers[s]
           IN /\ trades.aq[s] = <<>>
              /\ Len(m.bids.items) = 2
              /\ m.bids.items[1].id > m.bids.items[2].id
              /\ m.asks.items /= <<>>
              /\ IsSome(m.best_bid) /\ IsSome(m.best_ask)
              /\ Unwrap(m.best_bid) >= Unwrap(m.best_ask)

\* ------------------------------------------------- HashMap: no empty level

\* No level of the map is empty, by its FIFO or by its cached count.
NoEmptyLevel(levels) ==
    \A p \in DOMAIN levels :
        levels[p].orders /= <<>> /\ ~PriceLevel_is_empty(levels[p])

\* C36: on the HashMap book, after every add and every match_orders call no
\* empty price level remains in the bid map or in the ask map of any symbol (a
\* level goes in the step that pops its last order), so the best bid is the
\* highest key of the bid map and the best ask the lowest key of the ask map.
C36_HashMapNoEmptyLevel ==
    \A s \in BookSymbols :
        LET m == hm.matchers[s]
        IN /\ NoEmptyLevel(m.bid_levels)
           /\ NoEmptyLevel(m.ask_levels)
           /\ HashMapMatcher_get_best_bid(m)
                  = IF DOMAIN m.bid_levels = {} THEN None
                    ELSE Some(MaxOf(DOMAIN m.bid_levels))
           /\ HashMapMatcher_get_best_ask(m)
                  = IF DOMAIN m.ask_levels = {} THEN None
                    ELSE Some(MinOf(DOMAIN m.ask_levels))

\* A match pass has just popped the last bid of its level: the bid map holds
\* no level, the ask map still holds one.
C36_Witness ==
    /\ last.op = "match_orders"
    /\ \E s \in BookSymbols :
           /\ trades.hm[s] /= <<>>
           /\ DOMAIN hm.matchers[s].bid_levels = {}
           /\ DOMAIN hm.matchers[s].ask_levels /= {}

\* ------------------------------------------------- what route_order returns

\* The ring of the router's ArrayQueue book that an order would go to is full.
RouterRingFull(r, order) ==
    /\ r.order_book_type = "ArrayQueue"
    /\ order.symbol \in DOMAIN r.direct_order_books
    /\ ArrayQueue_is_full(
           RingOf(r.direct_order_books[order.symbol].matchers[order.symbol], order))

\* C37: route_order returns Ok(()) iff the order's symbol is configured,
\* whatever add_order_fast returned.  On an ArrayQueue router with the target
\* ring full it returns Ok(()) although add_order_fast returned false, the
\* order is not stored and the router is unchanged; in every other case of a
\* configured symbol (HashMap, PriorityQueue, ArrayQueue ring with room)
\* add_order_fast returned true and the order rests in the book of its symbol.
C37_RouteOrderResult ==
    [][\A order \in StepOrders :
          IsRouteOrder(order) =>
              LET configured == OrderRouter_supports_symbol(router, order.symbol)
              IN /\ (rlast'.ret = "Ok(())") <=> configured
                 /\ configured =>
                        LET a == Dyn_add_order_fast(
                                     router.order_book_type,
                                     router.direct_order_books[order.symbol], order)
                        IN IF RouterRingFull(router, order)
                           THEN /\ ~a.ret
                                /\ router' = router
                                /\ order \notin RouterResting(router', order.symbol)
                           ELSE /\ a.ret
                                /\ order \in RouterResting(router', order.symbol)
                                /\ order \notin RouterResting(router, order.symbol)]_vars

\* The last route_order call returned Ok(()) on an ArrayQueue router, and the
\* order it was given rests nowhere: a full ring refused it.
C37_Witness ==
    /\ rlast.op = "route_order"
    /\ rlast.ret = "Ok(())"
    /\ router.order_book_type = "ArrayQueue"
    /\ \A s \in BookSymbols :
           \A o \in RouterResting(router, s) : o.id /= Cardinality(usedIds)
    /\ \E s \in BookSymbols :
           \/ ArrayQueue_is_full(router.direct_order_books[s].matchers[s].bids)
           \/ ArrayQueue_is_full(router.direct_order_books[s].matchers[s].asks)

\* --------------------------------------------------------- symbol containment

\* Every order of the set, and of every pair of the log, has symbol s.
AllOfSymbol(resting, pairs, s) ==
    /\ \A o \in resting : o.symbol = s
    /\ \A i \in 1..Len(pairs) : pairs[i][1].symbol = s /\ pairs[i][2].symbol = s

\* C38: in every state reached through add_order, add_order_fast,
\* add_orders_batch_fast and match_orders on the books and through route_order
\* and match_all_orders on the router, every order resting in the matcher of
\* symbol s has order.symbol = s, on all three books and in the router's book
\* of s, and every pair consumed for s is of two orders of symbol s.
C38_SymbolContainment ==
    \A s \in BookSymbols :
        /\ AllOfSymbol(Resting("hm", hm.matchers[s], "Buy")
                           \cup Resting("hm", hm.matchers[s], "Sell"),
                       trades.hm[s], s)
        /\ AllOfSymbol(Resting("pq", pq.matchers[s], "Buy")
                           \cup Resting("pq", pq.matchers[s], "Sell"),
                       trades.pq[s], s)
        /\ AllOfSymbol(Resting("aq", aq.matchers[s], "Buy")
                           \cup Resting("aq", aq.matchers[s], "Sell"),
                       trades.aq[s], s)
        /\ DOMAIN RouterBook(router, s).matchers = {s}
        /\ AllOfSymbol(RouterResting(router, s), rtrades[s], s)

\* An order rests in the router's book of one symbol while an order of the
\* other symbol rests in each of the three books, in the matcher of its own
\* symbol.
C38_Witness ==
    \E s \in BookSymbols, u \in BookSymbols :
        /\ s /= u
        /\ RouterResting(router, s) /= {}
        /\ RouterResting(router, u) = {}
        /\ \E o \in Resting("hm", hm.matchers[u], "Buy") :
               /\ o \in Resting("pq", pq.matchers[u], "Buy")
               /\ o \in Resting("aq", aq.matchers[u], "Buy")
               /\ o.symbol = u
        /\ Resting("hm", hm.matchers[s], "Buy") = {}

\* ------------------------------------------------ PriceLevel bookkeeping

\* The sum of the quantities of the orders of a FIFO.
RECURSIVE SumOfQuantities(_)
SumOfQuantities(orders) ==
    IF orders = <<>> THEN 0
    ELSE Head(orders).quantity + SumOfQuantities(Tail(orders))

\* The cached aggregates of every level of the map are those of its FIFO.
LevelsBookkept(levels) ==
    \A p \in DOMAIN levels :
        /\ levels[p].count = Len(levels[p].orders)
        /\ levels[p].total_quantity = SumOfQuantities(levels[p].orders)
        /\ PriceLevel_is_empty(levels[p]) <=> levels[p].orders = <<>>

\* C39: in every reachable state of the HashMap book each level's cached count
\* equals the number of orders in its FIFO and its cached total_quantity
\* equals the sum of their quantities, so PriceLevel.is_empty, which reads
\* count, is true iff the FIFO is empty.
C39_PriceLevelBookkeeping ==
    \A s \in BookSymbols :
        /\ LevelsBookkept(hm.matchers[s].bid_levels)
        /\ LevelsBookkept(hm.matchers[s].ask_levels)

====
